---- MODULE Spec2Model ----
(***************************************************************************)
(* A model of the AWS infrastructure security analyzers: the rule catalog  *)
(* loader, the security-group analyzer (dangerous ports, wide port ranges, *)
(* all-traffic rules, unused groups) and the public-instance analyzer      *)
(* (exposed ports, risk level).                                            *)
(*                                                                         *)
(* Optional values (x?: T, T | undefined, T | null) are sequences of       *)
(* length at most one: Undefined is the absent value, Some(v) a present    *)
(* one.  An IpRange / Ipv6Range entry is represented by its CIDR string.   *)
(***************************************************************************)
EXTENDS Integers, Sequences, FiniteSets, TLC

VARIABLES
    rules,            \* SecurityGroupAnalyzer.rules, fixed by the constructor
    cloudGroups,      \* the security groups the EC2 endpoint serves
    reservations,     \* the Reservations the EC2 endpoint serves
    pc,               \* position of SecurityGroupAnalyzer.analyze
    groupIds,         \* the groupIds argument of analyze
    securityGroups,   \* analyze: the fetched SecurityGroups
    findings,         \* analyze: the findings pushed so far
    result,           \* analyze: the value returned or the error thrown
    piPc,             \* position of PublicInstanceAnalyzer.analyze
    allInstances,     \* PublicInstanceAnalyzer.analyze: allInstances
    piIndex,          \* index into allInstances of the instance being handled
    publicInstances,  \* PublicInstanceAnalyzer.analyze: publicInstances
    piResult,         \* PublicInstanceAnalyzer.analyze: value returned / error
    defaultFile,      \* content of the catalog file at DEFAULT_RULES_PATH
    customFile,       \* content of the catalog file at the custom path
    cachedRules,      \* rules-loader: cachedRules
    loaded,           \* what the last loadSecurityRules call did
    env,              \* process.env: AWS_REGION, AWS_ACCESS_KEY_ID, AWS_SECRET_ACCESS_KEY
    clients,          \* every AWSClientService constructed, in order of construction
    clientsByKey,     \* aws-client: clientsByKey, as a set of [key, client] entries
    clientCalls,      \* the getAWSClient / resetAWSClient calls made, with their answers
    toolClient,       \* the awsClient of the module-level tools (index into clients)
    toolPc,           \* position of the call-tool handler
    request,          \* the request the handler is serving
    reply,            \* the answer of the handler to its last request
    previous,         \* the last request answered with a result, and that result
    inFlight          \* the locals of the analyze calls that run at once, by call

vars == <<rules, cloudGroups, reservations, pc, groupIds, securityGroups,
          findings, result, piPc, allInstances, piIndex, publicInstances,
          piResult, defaultFile, customFile, cachedRules, loaded,
          env, clients, clientsByKey, clientCalls,
          toolClient, toolPc, request, reply, previous, inFlight>>

sgVars == <<pc, groupIds, securityGroups, findings, result>>
piVars == <<piPc, allInstances, piIndex, publicInstances, piResult>>
loaderVars == <<defaultFile, customFile, cachedRules, loaded>>
cloudVars == <<cloudGroups, reservations>>
clientVars == <<env, clients, clientsByKey, clientCalls>>
toolVars == <<toolClient, toolPc, request, reply, previous>>
serverVars == <<clientVars, toolVars, inFlight>>

-----------------------------------------------------------------------------
(* Optional values *)

Undefined == <<>>
Some(v) == <<v>>
IsDefined(o) == o # <<>>
Val(o) == o[1]
\* o ?? d
OrElse(o, d) == IF IsDefined(o) THEN Val(o) ELSE d

(* Sequences *)

Range(s) == {s[i] : i \in 1..Len(s)}
Map(s, F(_)) == [i \in 1..Len(s) |-> F(s[i])]

RECURSIVE Flatten(_)
Flatten(ss) == IF ss = <<>> THEN <<>> ELSE Head(ss) \o Flatten(Tail(ss))

\* All sequences over S of length 0..n
RECURSIVE SeqsUpTo(_, _)
SeqsUpTo(S, n) ==
    IF n = 0 THEN {<<>>}
    ELSE LET shorter == SeqsUpTo(S, n - 1)
         IN  shorter \cup {Append(s, x) : s \in shorter, x \in S}

-----------------------------------------------------------------------------
(* constants.ts *)

DANGEROUS_PORTS == <<22, 3389, 3306, 5432, 1433, 6379, 27017, 5984>>
PORT_RANGE_THRESHOLD == 100
EXPOSED_PORTS_MEDIUM_THRESHOLD == 5

PublicIPv4 == "0.0.0.0/0"
PublicIPv6 == "::/0"

-----------------------------------------------------------------------------
(* rules-loader.ts: lookups *)

\* Variant: the last rule of that id instead of the first
RECURSIVE getRuleByIdLast(_, _)
getRuleByIdLast(ruleList, ruleId) ==
    IF ruleList = <<>> THEN Undefined
    ELSE IF ruleList[Len(ruleList)].id = ruleId THEN Some(ruleList[Len(ruleList)])
    ELSE getRuleByIdLast(SubSeq(ruleList, 1, Len(ruleList) - 1), ruleId)

\* A lookup that falls back on the first rule of the catalog
getRuleByIdOrFirst(ruleList, ruleId) ==
    IF \E i \in 1..Len(ruleList) : ruleList[i].id = ruleId
    THEN Some(ruleList[CHOOSE i \in 1..Len(ruleList) :
                           /\ ruleList[i].id = ruleId
                           /\ \A j \in 1..(i - 1) : ruleList[j].id # ruleId])
    ELSE IF ruleList = <<>> THEN Undefined
    ELSE Some(ruleList[1])

\* rules.find(rule => rule.id === ruleId): the first match, or undefined
RECURSIVE getRuleById(_, _)
getRuleById(ruleList, ruleId) ==
    IF ruleList = <<>> THEN Undefined
    ELSE IF Head(ruleList).id = ruleId THEN Some(Head(ruleList))
    ELSE getRuleById(Tail(ruleList), ruleId)

-----------------------------------------------------------------------------
(* security-group-analyzer.ts: the per-permission checks.  ruleList is     *)
(* this.rules, permission an IpPermission.                                 *)

\* Variant: any listed IPv4 range counts as public
ipv4PublicAnyRange(permission) ==
    IsDefined(permission.IpRanges) /\ Len(Val(permission.IpRanges)) > 0

\* permission.IpRanges?.some(range => range.CidrIp === '0.0.0.0/0') ?? false
ipv4Public(permission) ==
    IF IsDefined(permission.IpRanges)
    THEN \E i \in 1..Len(Val(permission.IpRanges)) :
            Val(permission.IpRanges)[i] = PublicIPv4
    ELSE FALSE

\* permission.Ipv6Ranges?.some(range => range.CidrIpv6 === '::/0') ?? false
ipv6Public(permission) ==
    IF IsDefined(permission.Ipv6Ranges)
    THEN \E i \in 1..Len(Val(permission.Ipv6Ranges)) :
            Val(permission.Ipv6Ranges)[i] = PublicIPv6
    ELSE FALSE

\* `${fromPort}-${toPort}`
PortSpan(fromPort, toPort) == ToString(fromPort) \o "-" \o ToString(toPort)

\* Variant: the upper end of the range is excluded
PortInRangeExclusive(fromPort, port, toPort) == fromPort <= port /\ port < toPort

\* fromPort <= rule.port && rule.port <= toPort
PortInRange(fromPort, port, toPort) == fromPort <= port /\ port <= toPort

checkDangerousPorts(ruleList, permission, sgId, sgName) ==
    LET fromPort == permission.FromPort
        toPort == permission.ToPort
        protocol == OrElse(permission.IpProtocol, "unknown")
    IN  IF ~ipv4Public(permission) /\ ~ipv6Public(permission) THEN <<>>
        ELSE
        LET publicSource == IF ipv4Public(permission) THEN PublicIPv4 ELSE PublicIPv6
            dangerousRules ==
                SelectSeq(ruleList, LAMBDA rule :
                    /\ IsDefined(rule.port)
                    /\ rule.source = Some(PublicIPv4)
                    /\ rule.protocol = Some(protocol))
            matching ==
                SelectSeq(dangerousRules, LAMBDA rule :
                    /\ IsDefined(fromPort) /\ IsDefined(toPort) /\ IsDefined(rule.port)
                    /\ PortInRange(Val(fromPort), Val(rule.port), Val(toPort)))
        IN  Map(matching, LAMBDA rule :
                [securityGroupId |-> sgId,
                 securityGroupName |-> sgName,
                 ruleId |-> rule.id,
                 severity |-> rule.severity,
                 description |-> rule.description,
                 recommendation |-> rule.recommendation,
                 affectedRule |-> [port |-> [number |-> Val(rule.port)],
                                   protocol |-> protocol,
                                   source |-> publicSource]])

\* Variant: a difference equal to the threshold counts as wide
IsWideRangeInclusive(fromPort, toPort) == toPort - fromPort >= PORT_RANGE_THRESHOLD

\* portRange > PORT_RANGE_THRESHOLD, with portRange = toPort - fromPort
IsWideRange(fromPort, toPort) == toPort - fromPort > PORT_RANGE_THRESHOLD

checkWidePortRanges(ruleList, permission, sgId, sgName) ==
    LET fromPort == permission.FromPort
        toPort == permission.ToPort
    IN  IF IsDefined(fromPort) /\ IsDefined(toPort)
        THEN IF IsWideRange(Val(fromPort), Val(toPort))
             THEN LET wideRangeRule == getRuleById(ruleList, "sg-wide-port-range")
                  IN  IF IsDefined(wideRangeRule)
                      THEN LET ipv4Source ==
                                   IF IsDefined(permission.IpRanges)
                                      /\ Len(Val(permission.IpRanges)) > 0
                                   THEN Some(Val(permission.IpRanges)[1])
                                   ELSE Undefined
                               ipv6Source ==
                                   IF IsDefined(permission.Ipv6Ranges)
                                      /\ Len(Val(permission.Ipv6Ranges)) > 0
                                   THEN Some(Val(permission.Ipv6Ranges)[1])
                                   ELSE Undefined
                               source ==
                                   IF IsDefined(ipv4Source) THEN Val(ipv4Source)
                                   ELSE OrElse(ipv6Source, "unknown")
                               span == PortSpan(Val(fromPort), Val(toPort))
                           IN  << [securityGroupId |-> sgId,
                                   securityGroupName |-> sgName,
                                   ruleId |-> Val(wideRangeRule).id,
                                   severity |-> Val(wideRangeRule).severity,
                                   description |->
                                       Val(wideRangeRule).description
                                           \o " (" \o span \o ")",
                                   recommendation |-> Val(wideRangeRule).recommendation,
                                   affectedRule |->
                                       [port |-> [string |-> span],
                                        protocol |-> OrElse(permission.IpProtocol, "unknown"),
                                        source |-> source]] >>
                      ELSE <<>>
             ELSE <<>>
        ELSE <<>>

\* Variant: a permission without a protocol counts as all protocols
IsAllProtocolsOrNone(permission) ==
    permission.IpProtocol = Some("-1") \/ ~IsDefined(permission.IpProtocol)

\* permission.IpProtocol === '-1'
IsAllProtocols(permission) == permission.IpProtocol = Some("-1")

checkAllTrafficRules(ruleList, permission, sgId, sgName) ==
    IF IsAllProtocols(permission)
    THEN IF ipv4Public(permission) \/ ipv6Public(permission)
         THEN LET allTrafficRule == getRuleById(ruleList, "sg-all-traffic")
              IN  IF IsDefined(allTrafficRule)
                  THEN << [securityGroupId |-> sgId,
                           securityGroupName |-> sgName,
                           ruleId |-> Val(allTrafficRule).id,
                           severity |-> Val(allTrafficRule).severity,
                           description |-> Val(allTrafficRule).description,
                           recommendation |-> Val(allTrafficRule).recommendation,
                           affectedRule |->
                               [port |-> [string |-> "all"],
                                protocol |-> "all",
                                source |-> IF ipv4Public(permission)
                                           THEN PublicIPv4 ELSE PublicIPv6]] >>
                  ELSE <<>>
         ELSE <<>>
    ELSE <<>>


\* The checks of one permission dereference this.rules (rules.filter, rules.find)
\* only past their early returns; with this.rules undefined that is a TypeError.
DereferencesRules(permission) ==
    \/ ipv4Public(permission) \/ ipv6Public(permission)
    \/ /\ IsDefined(permission.FromPort) /\ IsDefined(permission.ToPort)
       /\ IsWideRange(Val(permission.FromPort), Val(permission.ToPort))

\* The findings of one permission with the all-traffic finding pushed first
permissionFindingsAllTrafficFirst(ruleList, permission, sgId, sgName) ==
    checkAllTrafficRules(ruleList, permission, sgId, sgName)
        \o checkDangerousPorts(ruleList, permission, sgId, sgName)
        \o checkWidePortRanges(ruleList, permission, sgId, sgName)

\* The findings of one permission, in the order analyzeSecurityGroup pushes them
permissionFindings(ruleList, permission, sgId, sgName) ==
    checkDangerousPorts(ruleList, permission, sgId, sgName)
        \o checkWidePortRanges(ruleList, permission, sgId, sgName)
        \o checkAllTrafficRules(ruleList, permission, sgId, sgName)

analyzeSecurityGroup(ruleList, sg) ==
    LET sgId == OrElse(sg.GroupId, "unknown")
        sgName == OrElse(sg.GroupName, "unknown")
    IN  IF ~IsDefined(sg.IpPermissions) THEN <<>>
        ELSE Flatten(Map(Val(sg.IpPermissions), LAMBDA permission :
                permissionFindings(ruleList, permission, sgId, sgName)))

\* analyzeSecurityGroup throws a TypeError when this.rules is undefined and a
\* permission reaches a use of it
analyzeSecurityGroupThrows(rulesOpt, sg) ==
    /\ ~IsDefined(rulesOpt)
    /\ IsDefined(sg.IpPermissions)
    /\ \E i \in 1..Len(Val(sg.IpPermissions)) :
          DereferencesRules(Val(sg.IpPermissions)[i])

\* if (sg.GroupId): a non-empty string
Truthy(o) == IsDefined(o) /\ Val(o) # ""

\* The Set usedSecurityGroups built from the DescribeInstances response
usedSecurityGroups(reservationsOpt) ==
    LET instancesOf(reservation) == OrElse(reservation.Instances, <<>>)
        groupsOf(instance) == OrElse(instance.SecurityGroups, <<>>)
    IN  {Val(sg.GroupId) :
            sg \in {g \in UNION {Range(groupsOf(instance)) :
                        instance \in UNION {Range(instancesOf(reservation)) :
                            reservation \in Range(OrElse(reservationsOpt, <<>>))}} :
                    Truthy(g.GroupId)}}

\* Variant: the default group is not exempt
IsUnusedIgnoringName(sg, used) ==
    Truthy(sg.GroupId) /\ Val(sg.GroupId) \notin used

\* The condition under which findUnusedSecurityGroups reports a group
IsUnused(sg, used) ==
    /\ Truthy(sg.GroupId)
    /\ Val(sg.GroupId) \notin used
    /\ sg.GroupName # Some("default")

findUnusedSecurityGroups(ruleList, reservationsOpt, groups) ==
    LET used == usedSecurityGroups(reservationsOpt)
        unusedRule == getRuleById(ruleList, "sg-unused")
    IN  IF IsDefined(unusedRule)
        THEN Map(SelectSeq(groups, LAMBDA sg : IsUnused(sg, used)),
                 LAMBDA sg :
                    [securityGroupId |-> Val(sg.GroupId),
                     securityGroupName |-> OrElse(sg.GroupName, "unknown"),
                     ruleId |-> Val(unusedRule).id,
                     severity |-> Val(unusedRule).severity,
                     description |-> Val(unusedRule).description,
                     recommendation |-> Val(unusedRule).recommendation])
        ELSE <<>>

\* A count that leaves out the findings of unused groups
CountSeverityOfPermissions(fs, s) ==
    Cardinality({i \in 1..Len(fs) :
                    fs[i].severity = s /\ "affectedRule" \in DOMAIN fs[i]})

\* findings.filter(f => f.severity === s).length
CountSeverity(fs, s) == Cardinality({i \in 1..Len(fs) : fs[i].severity = s})

\* A summary that also counts the groups of the run answered before
generateSummaryCumulative(fs, totalGroups) ==
    [totalGroups |-> totalGroups
                       + (IF IsDefined(previous)
                             /\ Val(previous).result.analysisType = "security-group"
                          THEN Val(previous).result.summary.totalGroups ELSE 0),
     highRiskFindings |-> CountSeverity(fs, "HIGH"),
     mediumRiskFindings |-> CountSeverity(fs, "MEDIUM"),
     lowRiskFindings |-> CountSeverity(fs, "LOW")]

generateSummary(fs, totalGroups) ==
    [totalGroups |-> totalGroups,
     highRiskFindings |-> CountSeverity(fs, "HIGH"),
     mediumRiskFindings |-> CountSeverity(fs, "MEDIUM"),
     lowRiskFindings |-> CountSeverity(fs, "LOW")]

-----------------------------------------------------------------------------
(* The EC2 endpoint *)

\* DescribeSecurityGroups({GroupIds}): every group, or those with a listed id
DescribeSecurityGroups(ids) ==
    IF ~IsDefined(cloudGroups) \/ ~IsDefined(ids) THEN cloudGroups
    ELSE Some(SelectSeq(Val(cloudGroups), LAMBDA sg :
                IsDefined(sg.GroupId) /\ Val(sg.GroupId) \in Range(Val(ids))))

\* A listed id that names no group is answered with InvalidGroup.NotFound
GroupIdsExist(ids) ==
    IsDefined(ids) =>
        \A i \in 1..Len(Val(ids)) :
            \E sg \in Range(OrElse(cloudGroups, <<>>)) : sg.GroupId = Some(Val(ids)[i])

\* The errors a fetch is rejected with
FetchErrors ==
    {[name |-> "UnauthorizedOperation", message |-> "You are not authorized"],
     [name |-> "TimeoutError", message |-> "socket timed out"]}

-----------------------------------------------------------------------------
(* SecurityGroupAnalyzer.analyze *)

\* analyze runs up to its first await: the DescribeSecurityGroups request is sent
analyzeStarts(ids) ==
    /\ pc = "idle"
    /\ pc' = "awaitGroups"
    /\ groupIds' = ids

\* analyze(ec2Client, groupIds) is called: the DescribeSecurityGroups request
Analyze(ids) ==
    /\ analyzeStarts(ids)
    /\ UNCHANGED <<serverVars, rules, cloudVars, securityGroups, findings, result,
                   piVars, loaderVars>>

\* The groups arrive: every group is analysed, then DescribeInstances is sent
GroupsFetched ==
    /\ pc = "awaitGroups"
    /\ GroupIdsExist(groupIds)
    /\ LET fetched == OrElse(DescribeSecurityGroups(groupIds), <<>>)
       IN  IF \E i \in 1..Len(fetched) : analyzeSecurityGroupThrows(rules, fetched[i])
           THEN /\ pc' = "thrown"
                /\ result' = [error |-> "Security group analysis failed: "
                                          \o "Cannot read properties of undefined"]
                /\ UNCHANGED <<securityGroups, findings>>
           ELSE /\ pc' = "awaitInstances"
                /\ securityGroups' = fetched
                /\ findings' = Flatten(Map(fetched, LAMBDA sg :
                                   analyzeSecurityGroup(OrElse(rules, <<>>), sg)))
                /\ UNCHANGED result
    /\ UNCHANGED <<serverVars, rules, cloudVars, groupIds, piVars, loaderVars>>

\* A catch block that returns what was gathered so far
AnalyzeFetchFailedPartial(error) ==
    /\ pc \in {"awaitGroups", "awaitInstances"}
    /\ pc' = "returned"
    /\ result' = [summary |-> generateSummary(findings, Len(securityGroups)),
                  findings |-> findings]
    /\ UNCHANGED <<securityGroups, findings>>
    /\ UNCHANGED <<serverVars, rules, cloudVars, groupIds, piVars, loaderVars>>

\* A fetch of analyze is rejected: the catch block rethrows
AnalyzeFetchFailed(error) ==
    /\ pc \in {"awaitGroups", "awaitInstances"}
    /\ pc' = "thrown"
    /\ result' = [error |-> "Security group analysis failed: " \o error.message]
    /\ securityGroups' = <<>>
    /\ findings' = <<>>
    /\ UNCHANGED <<serverVars, rules, cloudVars, groupIds, piVars, loaderVars>>

\* The instances arrive: unused groups are appended and the result returned
InstancesFetched ==
    /\ pc = "awaitInstances"
    /\ IF ~IsDefined(rules)
       THEN /\ pc' = "thrown"
            /\ result' = [error |-> "Security group analysis failed: "
                                      \o "Cannot read properties of undefined"]
            /\ UNCHANGED findings
       ELSE LET all == findings \o findUnusedSecurityGroups(
                                       Val(rules), reservations, securityGroups)
            IN  /\ pc' = "returned"
                /\ findings' = all
                /\ result' = [summary |-> generateSummary(all, Len(securityGroups)),
                              findings |-> all]
    /\ UNCHANGED <<serverVars, rules, cloudVars, groupIds, securityGroups, piVars, loaderVars>>


-----------------------------------------------------------------------------
(* The inputs of the security-group analysis *)

MaxPerms == 2       \* permissions per group, for the groups of several permissions
MaxGroups == 2      \* fetched groups, for the accounts of several groups

Rule(id, severity, port, protocol, source) ==
    [id |-> id, severity |-> severity, port |-> port, protocol |-> protocol,
     source |-> source, description |-> "description of " \o id,
     recommendation |-> "recommendation of " \o id]

SshWorld == Rule("sg-ssh-world", "HIGH", Some(22), Some("tcp"), Some(PublicIPv4))
RdpWorld == Rule("sg-rdp-world", "HIGH", Some(3389), Some("tcp"), Some(PublicIPv4))
UdpWorld == Rule("sg-udp-world", "MEDIUM", Some(100), Some("udp"), Some(PublicIPv4))
WideRange(severity) == Rule("sg-wide-port-range", severity, Undefined, Undefined, Undefined)
AllTraffic(severity) == Rule("sg-all-traffic", severity, Undefined, Undefined, Undefined)
Unused(severity) == Rule("sg-unused", severity, Undefined, Undefined, Undefined)

\* The catalog in the shape of the shipped one and of the tests' mockRules
FullCatalog ==
    <<SshWorld, RdpWorld, UdpWorld, WideRange("MEDIUM"), AllTraffic("HIGH"), Unused("LOW")>>

\* A catalog as an operator may edit it: rules that never match (private or IPv6
\* source, no protocol), two rules on one port, other severities, other order
EditedCatalog ==
    <<Unused("MEDIUM"),
      Rule("sg-ssh-internal", "LOW", Some(22), Some("tcp"), Some("10.0.0.0/8")),
      Rule("sg-ssh-noproto", "HIGH", Some(22), Undefined, Some(PublicIPv4)),
      Rule("sg-ssh-ipv6", "HIGH", Some(22), Some("tcp"), Some(PublicIPv6)),
      Rule("sg-any-22", "LOW", Some(22), Some("-1"), Some(PublicIPv4)),
      Rule("sg-ssh-audit", "MEDIUM", Some(22), Some("tcp"), Some(PublicIPv4)),
      AllTraffic("LOW"), SshWorld, WideRange("HIGH"), Unused("HIGH")>>

Without(catalog, id) == SelectSeq(catalog, LAMBDA rule : rule.id # id)

RuleLists ==
    {FullCatalog, EditedCatalog, <<>>,
     Without(FullCatalog, "sg-wide-port-range"),
     Without(FullCatalog, "sg-all-traffic"),
     Without(FullCatalog, "sg-unused")}

Permission(ports, protocol, ipRanges, ipv6Ranges) ==
    [FromPort |-> ports[1], ToPort |-> ports[2], IpProtocol |-> protocol,
     IpRanges |-> ipRanges, Ipv6Ranges |-> ipv6Ranges]

\* <<FromPort, ToPort>>: absent ports, single ports, spans of 100, 101 and 102
\* ports, spans over one or both rule ports, an ICMP type/code pair
PortPairs ==
    {<<Undefined, Undefined>>, <<Some(22), Undefined>>, <<Undefined, Some(22)>>,
     <<Some(22), Some(22)>>, <<Some(100), Some(100)>>, <<Some(0), Some(22)>>,
     <<Some(0), Some(99)>>, <<Some(0), Some(100)>>, <<Some(0), Some(101)>>,
     <<Some(22), Some(3389)>>, <<Some(23), Some(3388)>>, <<Some(101), Some(0)>>,
     <<Some(-1), Some(-1)>>}

Protocols == {Some("tcp"), Some("udp"), Some("-1"), Undefined}

IpRangeLists ==
    {Undefined, Some(<<>>), Some(<<PublicIPv4>>), Some(<<"10.0.0.0/8">>),
     Some(<<"10.0.0.0/8", PublicIPv4>>)}

Ipv6RangeLists == {Undefined, Some(<<PublicIPv6>>), Some(<<"fd00::/8", PublicIPv6>>),
                   Some(<<"fd00::/8">>)}

Permissions ==
    {Permission(ports, protocol, ipRanges, ipv6Ranges) :
        ports \in PortPairs, protocol \in Protocols,
        ipRanges \in IpRangeLists, ipv6Ranges \in Ipv6RangeLists}

\* The permissions that groups of several permissions are built from
ListedPermissions ==
    {Permission(<<Some(22), Some(22)>>, Some("tcp"), Some(<<PublicIPv4>>), Undefined),
     Permission(<<Some(0), Some(3389)>>, Some("tcp"), Undefined, Some(<<PublicIPv6>>)),
     Permission(<<Some(100), Some(201)>>, Some("udp"), Some(<<"10.0.0.0/8">>), Undefined),
     Permission(<<Undefined, Undefined>>, Some("-1"), Some(<<PublicIPv4>>), Undefined),
     Permission(<<Some(443), Some(443)>>, Some("tcp"), Some(<<PublicIPv4>>), Undefined)}

PermissionLists ==
    {<<permission>> : permission \in Permissions}
        \cup SeqsUpTo(ListedPermissions, MaxPerms)

Group(id, name, permissions) ==
    [GroupId |-> id, GroupName |-> name, IpPermissions |-> permissions]

Instance(id, publicIp, state, groups) ==
    [InstanceId |-> id, PublicIpAddress |-> publicIp, State |-> state,
     SecurityGroups |-> groups]

Attached(ids) == Some([i \in 1..Len(ids) |-> [GroupId |-> ids[i]]])

Running == Some([Name |-> Some("running")])
Stopped == Some([Name |-> Some("stopped")])

\* The DescribeInstances answers of the security-group analysis
AttachmentAnswers ==
    {Undefined,
     Some(<<>>),
     Some(<<[Instances |-> Undefined]>>),
     Some(<<[Instances |-> Some(<<Instance(Some("i-1"), Undefined, Running, Undefined)>>)]>>),
     Some(<<[Instances |-> Some(<<Instance(Some("i-1"), Undefined, Running,
                                            Attached(<<Some("sg-1")>>))>>)]>>),
     Some(<<[Instances |-> Some(<<Instance(Some("i-1"), Undefined, Stopped,
                                            Attached(<<Undefined, Some("sg-2")>>))>>)],
            [Instances |-> Some(<<Instance(Some("i-2"), Some("54.0.0.2"), Running,
                                            Attached(<<Some("sg-2"), Some("sg-1")>>))>>)]>>)}

GroupIdValues == {Some("sg-1"), Some("sg-2"), Undefined}
GroupNameValues == {Some("default"), Some("web"), Undefined}

\* The accounts of one group, which carry every permission list
PermissionAccounts ==
    {[groups |-> Some(<<Group(Some("sg-1"), Some("web"), Some(permissions))>>),
      reservations |-> Some(<<>>)] : permissions \in PermissionLists}

\* The accounts of several groups, which carry every id, name and attachment
GroupAccounts ==
    {[groups |-> groups, reservations |-> answer] :
        groups \in {Undefined} \cup
                   {Some(gs) : gs \in SeqsUpTo(
                       {Group(id, name, permissions) :
                           id \in GroupIdValues, name \in GroupNameValues,
                           permissions \in {Undefined}} \cup
                       {Group(Some("sg-1"), Some("web"),
                              Some(<<Permission(<<Some(22), Some(22)>>, Some("tcp"),
                                                Some(<<PublicIPv4>>), Undefined)>>))},
                       MaxGroups)},
        answer \in AttachmentAnswers}

Accounts == PermissionAccounts \cup GroupAccounts

\* analyze is called with no groupIds or with a list of ids
GroupIdArguments == {Undefined, Some(<<"sg-1">>)}

InitIdleLoader ==
    /\ defaultFile = Undefined
    /\ customFile = Undefined
    /\ cachedRules = Undefined
    /\ loaded = Undefined

\* The analyze calls that run at once
Calls == {1, 2}

\* The locals of a call that has not begun
IdleCall ==
    [kind |-> "none", pc |-> "idle", groupIds |-> Undefined, securityGroups |-> <<>>,
     findings |-> <<>>, allInstances |-> <<>>, piIndex |-> 0,
     publicInstances |-> <<>>, result |-> Undefined]

\* No client constructed, no request served
InitIdleServer ==
    /\ env = [AWS_REGION |-> Undefined, AWS_ACCESS_KEY_ID |-> Undefined,
              AWS_SECRET_ACCESS_KEY |-> Undefined]
    /\ clients = <<>>
    /\ clientsByKey = {}
    /\ clientCalls = <<>>
    /\ toolClient = 0
    /\ toolPc = "idle"
    /\ request = Undefined
    /\ reply = Undefined
    /\ previous = Undefined
    /\ inFlight = [c \in Calls |-> IdleCall]

InitIdleSG ==
    /\ pc = "idle"
    /\ groupIds = Undefined
    /\ securityGroups = <<>>
    /\ findings = <<>>
    /\ result = Undefined

InitIdlePI ==
    /\ piPc = "idle"
    /\ allInstances = <<>>
    /\ piIndex = 0
    /\ publicInstances = <<>>
    /\ piResult = Undefined

\* An analyzer constructed with options.rules, before its analyze is called
Init ==
    /\ rules \in {Some(ruleList) : ruleList \in RuleLists}
    /\ \E account \in Accounts :
          /\ cloudGroups = account.groups
          /\ reservations = account.reservations
    /\ InitIdleSG
    /\ InitIdlePI
    /\ InitIdleServer
    /\ InitIdleLoader

Next ==
    \/ \E ids \in GroupIdArguments : Analyze(ids)
    \/ GroupsFetched
    \/ \E error \in FetchErrors : AnalyzeFetchFailed(error)
    \/ InstancesFetched

Spec == Init /\ [][Next]_vars


-----------------------------------------------------------------------------
(* public-instance-analyzer.ts *)

\* for (port = fromPort; port <= toPort; port++)
\*     if (!exposedPorts.includes(port)) exposedPorts.push(port)
RECURSIVE pushPorts(_, _, _)
pushPorts(exposedPorts, port, toPort) ==
    IF port > toPort THEN exposedPorts
    ELSE pushPorts(IF port \in Range(exposedPorts) THEN exposedPorts
                   ELSE Append(exposedPorts, port),
                   port + 1, toPort)

\* A loop body that takes a missing port for port 0
pushPermissionFromZero(exposedPorts, permission) ==
    IF ipv4Public(permission) \/ ipv6Public(permission)
    THEN pushPorts(exposedPorts, OrElse(permission.FromPort, 0),
                   OrElse(permission.ToPort, 0))
    ELSE exposedPorts

\* The body of the loop over the permissions of a group
pushPermission(exposedPorts, permission) ==
    IF ipv4Public(permission) \/ ipv6Public(permission)
    THEN IF IsDefined(permission.FromPort) /\ IsDefined(permission.ToPort)
         THEN pushPorts(exposedPorts, Val(permission.FromPort), Val(permission.ToPort))
         ELSE exposedPorts
    ELSE exposedPorts

RECURSIVE pushPermissions(_, _)
pushPermissions(exposedPorts, permissions) ==
    IF permissions = <<>> THEN exposedPorts
    ELSE pushPermissions(pushPermission(exposedPorts, Head(permissions)),
                         Tail(permissions))

RECURSIVE pushGroups(_, _)
pushGroups(exposedPorts, groups) ==
    IF groups = <<>> THEN exposedPorts
    ELSE pushGroups(pushPermissions(exposedPorts,
                                    OrElse(Head(groups).IpPermissions, <<>>)),
                    Tail(groups))

RECURSIVE insertAscending(_, _)
insertAscending(sorted, port) ==
    IF sorted = <<>> THEN <<port>>
    ELSE IF port < Head(sorted) THEN <<port>> \o sorted
    ELSE <<Head(sorted)>> \o insertAscending(Tail(sorted), port)

\* Variant: the list is returned in the order the ports were pushed
RECURSIVE sortNothing(_)
sortNothing(ports) == ports

\* exposedPorts.sort((a, b) => a - b)
RECURSIVE sortAscending(_)
sortAscending(ports) ==
    IF ports = <<>> THEN <<>>
    ELSE insertAscending(sortAscending(SubSeq(ports, 1, Len(ports) - 1)),
                         ports[Len(ports)])

\* getExposedPorts, given the answer to its DescribeSecurityGroups request
getExposedPorts(response) == sortAscending(pushGroups(<<>>, OrElse(response, <<>>)))

\* Variant: the number of ports is looked at before the dangerous ports
assessRiskCountFirst(exposedPorts) ==
    IF Len(exposedPorts) > EXPOSED_PORTS_MEDIUM_THRESHOLD THEN "MEDIUM"
    ELSE IF \E i \in 1..Len(exposedPorts) : exposedPorts[i] \in Range(DANGEROUS_PORTS)
    THEN "HIGH"
    ELSE "LOW"

\* Variant: a port count equal to the threshold is MEDIUM
assessRiskInclusive(exposedPorts) ==
    IF \E i \in 1..Len(exposedPorts) : exposedPorts[i] \in Range(DANGEROUS_PORTS)
    THEN "HIGH"
    ELSE IF Len(exposedPorts) >= EXPOSED_PORTS_MEDIUM_THRESHOLD THEN "MEDIUM"
    ELSE "LOW"

assessRisk(exposedPorts) ==
    IF \E i \in 1..Len(exposedPorts) : exposedPorts[i] \in Range(DANGEROUS_PORTS)
    THEN "HIGH"
    ELSE IF Len(exposedPorts) > EXPOSED_PORTS_MEDIUM_THRESHOLD THEN "MEDIUM"
    ELSE "LOW"

\* ports.join(', ')
RECURSIVE joinPorts(_)
joinPorts(ports) ==
    IF ports = <<>> THEN ""
    ELSE IF Len(ports) = 1 THEN ToString(ports[1])
    ELSE ToString(ports[1]) \o ", " \o joinPorts(Tail(ports))

\* Recommendations whose first entry lists every exposed port
generateRecommendationsAllPorts(exposedPorts) ==
    (IF \E i \in 1..Len(exposedPorts) : exposedPorts[i] \in Range(DANGEROUS_PORTS)
     THEN <<"Restrict access to dangerous ports: " \o joinPorts(exposedPorts)>>
     ELSE <<>>)
    \o (IF Len(exposedPorts) > EXPOSED_PORTS_MEDIUM_THRESHOLD
        THEN <<"Consider reducing the number of exposed ports">>
        ELSE <<>>)
    \o (IF Len(exposedPorts) > 0
        THEN <<"Use Application Load Balancer or NAT Gateway for controlled access",
               "Consider moving to private subnet with VPN access">>
        ELSE <<>>)

generateRecommendations(exposedPorts) ==
    LET exposedDangerousPorts ==
            SelectSeq(exposedPorts, LAMBDA port : port \in Range(DANGEROUS_PORTS))
    IN  (IF Len(exposedDangerousPorts) > 0
         THEN <<"Restrict access to dangerous ports: " \o joinPorts(exposedDangerousPorts)>>
         ELSE <<>>)
        \o (IF Len(exposedPorts) > EXPOSED_PORTS_MEDIUM_THRESHOLD
            THEN <<"Consider reducing the number of exposed ports">>
            ELSE <<>>)
        \o (IF Len(exposedPorts) > 0
            THEN <<"Use Application Load Balancer or NAT Gateway for controlled access",
                   "Consider moving to private subnet with VPN access">>
            ELSE <<>>)

\* A test that reports the instances with a public IP address in any state
IsPublicInAnyState(instance) == Truthy(instance.PublicIpAddress)

\* instance.PublicIpAddress && instance.State?.Name === 'running'
IsPublicRunning(instance) ==
    /\ Truthy(instance.PublicIpAddress)
    /\ IsDefined(instance.State)
    /\ Val(instance.State).Name = Some("running")

\* instance.SecurityGroups?.map(sg => sg.GroupId).filter(Boolean) ?? []
securityGroupIdsOf(instance) ==
    Map(SelectSeq(OrElse(instance.SecurityGroups, <<>>), LAMBDA sg : Truthy(sg.GroupId)),
        LAMBDA sg : Val(sg.GroupId))

\* The PublicInstanceInfo pushed for an instance whose exposed ports are known
publicInstanceInfo(instance, exposedPorts) ==
    [instanceId |-> OrElse(instance.InstanceId, "unknown"),
     publicIp |-> Val(instance.PublicIpAddress),
     securityGroups |-> securityGroupIdsOf(instance),
     exposedPorts |-> exposedPorts,
     riskLevel |-> assessRisk(exposedPorts),
     recommendations |-> generateRecommendations(exposedPorts)]

\* The loop over allInstances from index i on, up to the next instance whose
\* getExposedPorts sends a request (index |-> that instance) or to the end
\* (index |-> 0); an instance with no group id gets [] without a request
RECURSIVE runInstances(_, _, _)
runInstances(instances, i, infos) ==
    IF i > Len(instances) THEN [index |-> 0, infos |-> infos]
    ELSE IF ~IsPublicRunning(instances[i]) THEN runInstances(instances, i + 1, infos)
    ELSE IF Len(securityGroupIdsOf(instances[i])) = 0
         THEN runInstances(instances, i + 1,
                           Append(infos, publicInstanceInfo(instances[i], <<>>)))
    ELSE [index |-> i, infos |-> infos]

RECURSIVE sumExposedPorts(_)
sumExposedPorts(infos) ==
    IF infos = <<>> THEN 0
    ELSE Len(Head(infos).exposedPorts) + sumExposedPorts(Tail(infos))

\* The value analyze returns
publicInstanceResult(instances, infos) ==
    [summary |-> [totalInstances |-> Len(instances),
                  publicInstances |-> Len(infos),
                  totalExposedPorts |-> sumExposedPorts(infos)],
     instances |-> infos]

\* The state after the instance loop has run as far as runInstances says
PIContinue(instances, run) ==
    /\ publicInstances' = run.infos
    /\ piIndex' = run.index
    /\ IF run.index = 0
       THEN /\ piPc' = "returned"
            /\ piResult' = publicInstanceResult(instances, run.infos)
       ELSE /\ piPc' = "awaitGroups"
            /\ UNCHANGED piResult

\* analyze runs up to its first await: the DescribeInstances request is sent
piAnalyzeStarts ==
    /\ piPc = "idle"
    /\ piPc' = "awaitInstances"

\* analyze(ec2Client) is called: the DescribeInstances request
PIAnalyze ==
    /\ piAnalyzeStarts
    /\ UNCHANGED <<serverVars, rules, cloudVars, sgVars, loaderVars,
                   allInstances, piIndex, publicInstances, piResult>>

\* The instances arrive: the reservations are flattened and the loop starts
PIInstancesFetched ==
    /\ piPc = "awaitInstances"
    /\ LET instances == Flatten(Map(OrElse(reservations, <<>>), LAMBDA reservation :
                            OrElse(reservation.Instances, <<>>)))
       IN  /\ allInstances' = instances
           /\ PIContinue(instances, runInstances(instances, 1, <<>>))
    /\ UNCHANGED <<serverVars, rules, cloudVars, sgVars, loaderVars>>

\* The groups of the instance at piIndex arrive: its info is pushed, the loop
\* goes on
PIGroupsFetched ==
    /\ piPc = "awaitGroups"
    /\ LET instance == allInstances[piIndex]
           ids == Some(securityGroupIdsOf(instance))
       IN  /\ GroupIdsExist(ids)
           /\ PIContinue(allInstances,
                  runInstances(allInstances, piIndex + 1,
                      Append(publicInstances,
                             publicInstanceInfo(instance,
                                 getExposedPorts(DescribeSecurityGroups(ids))))))
    /\ UNCHANGED <<serverVars, rules, cloudVars, sgVars, loaderVars, allInstances>>

\* A fetch of analyze is rejected: the catch block rethrows
PIFetchFailed(error) ==
    /\ piPc \in {"awaitInstances", "awaitGroups"}
    /\ piPc' = "thrown"
    /\ piResult' = [error |-> "Public instance analysis failed: " \o error.message]
    /\ allInstances' = <<>>
    /\ publicInstances' = <<>>
    /\ piIndex' = 0
    /\ UNCHANGED <<serverVars, rules, cloudVars, sgVars, loaderVars>>

(* The inputs of the public-instance analysis *)

MaxInstances == 2   \* instances in the DescribeInstances answer

ExposurePermissions ==
    {Permission(<<Some(22), Some(22)>>, Some("tcp"), Some(<<PublicIPv4>>), Undefined),
     Permission(<<Some(8080), Some(8085)>>, Some("udp"), Some(<<"10.0.0.0/8">>),
                Some(<<PublicIPv6>>)),
     Permission(<<Some(8083), Some(8087)>>, Some("tcp"), Some(<<PublicIPv4>>), Undefined),
     Permission(<<Some(20), Some(25)>>, Some("tcp"), Some(<<"10.0.0.0/8">>), Undefined),
     Permission(<<Undefined, Undefined>>, Some("-1"), Some(<<PublicIPv4>>), Undefined)}

\* Group sg-1 carries every permission list; sg-2 is absent, or opens 80 and 22
ExposureGroups ==
    {<<Group(Some("sg-1"), Some("web"), permissions)>> \o second :
        permissions \in {Undefined} \cup
                        {Some(ps) : ps \in SeqsUpTo(ExposurePermissions, MaxPerms)},
        second \in {<<>>,
                    <<Group(Some("sg-2"), Some("db"),
                        Some(<<Permission(<<Some(80), Some(80)>>, Some("tcp"),
                                          Some(<<PublicIPv4>>), Undefined),
                               Permission(<<Some(22), Some(22)>>, Some("udp"),
                                          Undefined, Some(<<PublicIPv6>>))>>))>>}}

ExposureInstances ==
    {Instance(Some("i-1"), Some("54.0.0.1"), Running, Attached(<<Some("sg-1")>>)),
     Instance(Some("i-2"), Some("54.0.0.2"), Running,
              Attached(<<Undefined, Some("sg-2"), Some("sg-1")>>)),
     Instance(Some("i-3"), Some("54.0.0.3"), Stopped, Attached(<<Some("sg-1")>>)),
     Instance(Some("i-4"), Undefined, Running, Attached(<<Some("sg-1")>>)),
     Instance(Undefined, Some("54.0.0.5"), Running, Undefined)}

\* One reservation for each instance, after a reservation without Instances
ExposureReservations ==
    {Undefined} \cup
    {Some(<<[Instances |-> Undefined]>>
          \o [i \in 1..Len(instances) |-> [Instances |-> Some(<<instances[i]>>)]]) :
        instances \in SeqsUpTo(ExposureInstances, MaxInstances)}

InitPI ==
    /\ rules = Some(FullCatalog)
    /\ cloudGroups \in {Some(groups) : groups \in ExposureGroups}
    /\ reservations \in ExposureReservations
    /\ InitIdleSG
    /\ InitIdlePI
    /\ InitIdleServer
    /\ InitIdleLoader

NextPI ==
    \/ PIAnalyze
    \/ PIInstancesFetched
    \/ PIGroupsFetched
    \/ \E error \in FetchErrors : PIFetchFailed(error)

SpecPI == InitPI /\ [][NextPI]_vars

-----------------------------------------------------------------------------
(* The public-instance analysis of two instances, the second of which is  *)
(* attached to one more group, which opens a single dangerous port        *)

MaxRiskPerms == 3   \* permissions of the group that both instances share

RiskPermissions ==
    {Permission(<<Some(ports[1]), Some(ports[2])>>, Some("tcp"),
                Some(<<PublicIPv4>>), Undefined) :
        ports \in {<<80, 80>>, <<443, 443>>, <<8080, 8083>>, <<8080, 8084>>,
                   <<22, 22>>, <<3306, 3306>>, <<5984, 5984>>}}

InitRisk ==
    /\ rules = Some(FullCatalog)
    /\ \E permissions \in SeqsUpTo(RiskPermissions, MaxRiskPerms),
          i \in 1..Len(DANGEROUS_PORTS) :
          cloudGroups =
              Some(<<Group(Some("sg-1"), Some("web"), Some(permissions)),
                     Group(Some("sg-2"), Some("db"),
                         Some(<<Permission(<<Some(DANGEROUS_PORTS[i]),
                                             Some(DANGEROUS_PORTS[i])>>,
                                           Some("tcp"), Undefined,
                                           Some(<<PublicIPv6>>))>>))>>)
    /\ reservations =
          Some(<<[Instances |->
                    Some(<<Instance(Some("i-1"), Some("54.0.0.1"), Running,
                                    Attached(<<Some("sg-1")>>)),
                           Instance(Some("i-2"), Some("54.0.0.2"), Running,
                                    Attached(<<Some("sg-1"), Some("sg-2")>>))>>)]>>)
    /\ InitIdleSG
    /\ InitIdlePI
    /\ InitIdleServer
    /\ InitIdleLoader

SpecRisk == InitRisk /\ [][NextPI]_vars

-----------------------------------------------------------------------------
(* rules-loader.ts: loadSecurityRules, clearRulesCache.  A catalog file is *)
(* [exists, readable, parsed]: parsed is Undefined when JSON.parse throws, *)
(* else the parsed value, [isNull, rules], rules being its .rules member.  *)

CatalogFile(exists, readable, parsed) ==
    [exists |-> exists, readable |-> readable, parsed |-> parsed]

DEFAULT_RULES_PATH == "dist/rules/security-rules.json"

\* The one custom path at which a file may exist
CustomRulesPath == "/tmp/rules-test/custom.json"

\* The file system: nothing exists at any other path, the empty path included
FileAt(rulePath) ==
    IF rulePath = DEFAULT_RULES_PATH THEN defaultFile
    ELSE IF rulePath = CustomRulesPath THEN customFile
    ELSE CatalogFile(FALSE, FALSE, Undefined)

\* Variant: every call reads the file, the cache is never answered from
loadSecurityRulesUncached(cache, customPath) ==
    LET file == FileAt(OrElse(customPath, DEFAULT_RULES_PATH))
    IN  IF ~file.exists
        THEN [returned |-> Some(<<>>), cachedRules |-> cache, read |-> FALSE]
        ELSE IF ~file.readable \/ ~IsDefined(file.parsed) \/ Val(file.parsed).isNull
        THEN [returned |-> Some(<<>>), cachedRules |-> cache, read |-> TRUE]
        ELSE [returned |-> Val(file.parsed).rules,
              cachedRules |-> IF Truthy(customPath) THEN cache
                              ELSE Val(file.parsed).rules,
              read |-> TRUE]

\* What one call does: the value returned (Undefined for undefined), the value
\* of cachedRules after the call, and whether the file was read.
\* cachedRules is truthy when it holds an array, the empty one included;
\* !customPath is true for a missing argument and for the empty string, while
\* customPath ?? DEFAULT_RULES_PATH replaces a missing argument only.
loadSecurityRules(cache, customPath) ==
    IF IsDefined(cache) /\ ~Truthy(customPath)
    THEN [returned |-> cache, cachedRules |-> cache, read |-> FALSE]
    ELSE LET file == FileAt(OrElse(customPath, DEFAULT_RULES_PATH))
         IN  IF ~file.exists
             THEN [returned |-> Some(<<>>), cachedRules |-> cache, read |-> FALSE]
             ELSE IF ~file.readable \/ ~IsDefined(file.parsed)
                        \/ Val(file.parsed).isNull
             THEN [returned |-> Some(<<>>), cachedRules |-> cache, read |-> TRUE]
             ELSE [returned |-> Val(file.parsed).rules,
                   cachedRules |-> IF Truthy(customPath) THEN cache
                                   ELSE Val(file.parsed).rules,
                   read |-> TRUE]

\* A load that also replaces the rules of the analyzer already constructed
LoadSecurityRulesIntoAnalyzer(customPath) ==
    /\ LET call == loadSecurityRules(cachedRules, customPath)
       IN  /\ cachedRules' = call.cachedRules
           /\ loaded' = Some([customPath |-> customPath, returned |-> call.returned,
                              read |-> call.read])
           /\ rules' = IF pc = "noAnalyzer" THEN rules ELSE call.returned
    /\ UNCHANGED <<serverVars, cloudVars, sgVars, piVars, defaultFile, customFile>>

\* loadSecurityRules(customPath?) is called
LoadSecurityRules(customPath) ==
    /\ LET call == loadSecurityRules(cachedRules, customPath)
       IN  /\ cachedRules' = call.cachedRules
           /\ loaded' = Some([customPath |-> customPath, returned |-> call.returned,
                              read |-> call.read])
    /\ UNCHANGED <<serverVars, rules, cloudVars, sgVars, piVars, defaultFile, customFile>>

ClearRulesCache ==
    /\ cachedRules' = Undefined
    /\ UNCHANGED <<serverVars, rules, cloudVars, sgVars, piVars, defaultFile, customFile, loaded>>

\* The rules option of the constructor: absent, or the list a caller loaded
ConstructorOptions ==
    IF IsDefined(loaded) THEN {Undefined, Val(loaded).returned} ELSE {Undefined}

\* new SecurityGroupAnalyzer(options): this.rules = options?.rules ?? loadSecurityRules()
NewAnalyzer ==
    /\ pc = "noAnalyzer"
    /\ pc' = "idle"
    /\ \E optionsRules \in ConstructorOptions :
          IF IsDefined(optionsRules)
          THEN /\ rules' = optionsRules
               /\ UNCHANGED <<cachedRules, loaded>>
          ELSE LET call == loadSecurityRules(cachedRules, Undefined)
               IN  /\ rules' = call.returned
                   /\ cachedRules' = call.cachedRules
                   /\ loaded' = Some([customPath |-> Undefined, returned |-> call.returned,
                                      read |-> call.read])
    /\ UNCHANGED <<serverVars, cloudVars, groupIds, securityGroups, findings, result, piVars,
                   defaultFile, customFile>>

(* The inputs of the loader *)

\* loadSecurityRules(), loadSecurityRules(''), loadSecurityRules(customPath)
PathArguments == {Undefined, Some(""), Some(CustomRulesPath)}

ParsedCatalog(ruleList) == Some([isNull |-> FALSE, rules |-> Some(ruleList)])

MissingFile == CatalogFile(FALSE, FALSE, Undefined)
UnreadableFile == CatalogFile(TRUE, FALSE, Undefined)
InvalidJsonFile == CatalogFile(TRUE, TRUE, Undefined)
NullJsonFile == CatalogFile(TRUE, TRUE, Some([isNull |-> TRUE, rules |-> Undefined]))
\* Valid JSON without a rules member, such as {} or []
NoRulesFile == CatalogFile(TRUE, TRUE, Some([isNull |-> FALSE, rules |-> Undefined]))

CatalogFiles ==
    {MissingFile, UnreadableFile, InvalidJsonFile, NullJsonFile, NoRulesFile,
     CatalogFile(TRUE, TRUE, ParsedCatalog(FullCatalog)),
     CatalogFile(TRUE, TRUE, ParsedCatalog(EditedCatalog)),
     CatalogFile(TRUE, TRUE, ParsedCatalog(<<>>))}

\* Accounts of one group attached to nothing: without permissions, with port 22
\* open to the world, with a private wide range
LoaderAccounts ==
    {[groups |-> Some(<<Group(Some("sg-1"), Some("web"), permissions)>>),
      reservations |-> Some(<<>>)] :
        permissions \in
            {Undefined,
             Some(<<Permission(<<Some(22), Some(22)>>, Some("tcp"),
                               Some(<<PublicIPv4>>), Undefined)>>),
             Some(<<Permission(<<Some(0), Some(101)>>, Some("-1"),
                               Some(<<"10.0.0.0/8">>), Undefined)>>)}}

\* The process before any analyzer is constructed and any catalog is loaded
InitLoad ==
    /\ rules = Undefined
    /\ \E account \in LoaderAccounts :
          /\ cloudGroups = account.groups
          /\ reservations = account.reservations
    /\ pc = "noAnalyzer"
    /\ groupIds = Undefined
    /\ securityGroups = <<>>
    /\ findings = <<>>
    /\ result = Undefined
    /\ InitIdlePI
    /\ InitIdleServer
    /\ defaultFile \in CatalogFiles
    /\ customFile \in CatalogFiles
    /\ cachedRules = Undefined
    /\ loaded = Undefined

NextLoad ==
    \/ \E customPath \in PathArguments : LoadSecurityRules(customPath)
    \/ ClearRulesCache
    \/ NewAnalyzer
    \/ \E ids \in GroupIdArguments : Analyze(ids)
    \/ GroupsFetched
    \/ \E error \in FetchErrors : AnalyzeFetchFailed(error)
    \/ InstancesFetched

SpecLoad == InitLoad /\ [][NextLoad]_vars

-----------------------------------------------------------------------------
(* The loader alone, over catalog files that are rewritten between calls *)

\* fs.writeFileSync / fs.rmSync on a catalog file, as the tests of the loader do
WriteCatalog(rulePath, file) ==
    /\ IF rulePath = DEFAULT_RULES_PATH
       THEN defaultFile' = file /\ UNCHANGED customFile
       ELSE customFile' = file /\ UNCHANGED defaultFile
    /\ UNCHANGED <<serverVars, rules, cloudVars, sgVars, piVars, cachedRules, loaded>>

InitCache ==
    /\ rules = Some(<<>>)
    /\ cloudGroups = Some(<<>>)
    /\ reservations = Some(<<>>)
    /\ InitIdleSG
    /\ InitIdlePI
    /\ InitIdleServer
    /\ defaultFile \in CatalogFiles
    /\ customFile \in CatalogFiles
    /\ cachedRules = Undefined
    /\ loaded = Undefined

NextCache ==
    \/ \E customPath \in PathArguments : LoadSecurityRules(customPath)
    \/ ClearRulesCache
    \/ \E rulePath \in {DEFAULT_RULES_PATH, CustomRulesPath}, file \in CatalogFiles :
          WriteCatalog(rulePath, file)

SpecCache == InitCache /\ [][NextCache]_vars

-----------------------------------------------------------------------------
(* The loader and an analyzer, over catalog files that are rewritten while *)
(* the analyzer lives                                                      *)

\* The contents a catalog file is rewritten to
RewrittenFiles ==
    {MissingFile,
     CatalogFile(TRUE, TRUE, ParsedCatalog(FullCatalog)),
     CatalogFile(TRUE, TRUE, ParsedCatalog(EditedCatalog))}

InitReload ==
    /\ InitLoad
    /\ defaultFile \in RewrittenFiles
    /\ customFile \in RewrittenFiles

NextReload ==
    \/ NextLoad
    \/ \E rulePath \in {DEFAULT_RULES_PATH, CustomRulesPath}, file \in RewrittenFiles :
          WriteCatalog(rulePath, file)

SpecReload == InitReload /\ [][NextReload]_vars

-----------------------------------------------------------------------------
(* aws-client.ts: AWSClientService, getAWSClient, resetAWSClient.  A config *)
(* is Undefined or Some([region, accessKeyId, secretAccessKey]), each an    *)
(* optional string.                                                         *)

AWSClientConfig(region, accessKeyId, secretAccessKey) ==
    Some([region |-> region, accessKeyId |-> accessKeyId,
          secretAccessKey |-> secretAccessKey])

\* config?.member
ConfigRegion(config) == IF IsDefined(config) THEN Val(config).region ELSE Undefined
ConfigAccessKeyId(config) ==
    IF IsDefined(config) THEN Val(config).accessKeyId ELSE Undefined
ConfigSecretAccessKey(config) ==
    IF IsDefined(config) THEN Val(config).secretAccessKey ELSE Undefined

\* new AWSClientService(config): the region and the credentials of its EC2Client
AWSClientService(config, environment) ==
    [region |-> OrElse(ConfigRegion(config),
                       OrElse(environment.AWS_REGION, "us-east-1")),
     credentials |->
        IF Truthy(ConfigAccessKeyId(config)) /\ Truthy(ConfigSecretAccessKey(config))
        THEN Some([accessKeyId |-> Val(ConfigAccessKeyId(config)),
                   secretAccessKey |-> Val(ConfigSecretAccessKey(config))])
        ELSE IF Truthy(environment.AWS_ACCESS_KEY_ID)
                  /\ Truthy(environment.AWS_SECRET_ACCESS_KEY)
        THEN Some([accessKeyId |-> Val(environment.AWS_ACCESS_KEY_ID),
                   secretAccessKey |-> Val(environment.AWS_SECRET_ACCESS_KEY)])
        ELSE Undefined]

\* AWSClientService.getRegion
getRegion(client) == client.region

\* JSON.stringify({region, accessKeyId}) of two strings without quotes or backslashes
StringifyKey(region, accessKeyId) ==
    "{\"region\":\"" \o region \o "\",\"accessKeyId\":\"" \o accessKeyId \o "\"}"

\* Variant: the key is built from the region alone
clientKeyOfRegion(config, environment) ==
    StringifyKey(OrElse(ConfigRegion(config),
                        OrElse(environment.AWS_REGION, "us-east-1")), "")

\* Variant: the key also carries the secret access key
clientKeyWithSecret(config, environment) ==
    StringifyKey(OrElse(ConfigRegion(config),
                        OrElse(environment.AWS_REGION, "us-east-1")),
                 OrElse(ConfigAccessKeyId(config),
                        OrElse(environment.AWS_ACCESS_KEY_ID, ""))
                    \o "/" \o OrElse(ConfigSecretAccessKey(config), ""))

\* getAWSClient: key
clientKey(config, environment) ==
    StringifyKey(OrElse(ConfigRegion(config),
                        OrElse(environment.AWS_REGION, "us-east-1")),
                 OrElse(ConfigAccessKeyId(config),
                        OrElse(environment.AWS_ACCESS_KEY_ID, "")))

\* getAWSClient(config): the client returned (an index into the clients
\* constructed), and the clients and the map after the call
getAWSClient(config, environment, constructed, byKey) ==
    LET key == clientKey(config, environment)
    IN  IF \E entry \in byKey : entry.key = key
        THEN [client |-> (CHOOSE entry \in byKey : entry.key = key).client,
              clients |-> constructed,
              clientsByKey |-> byKey]
        ELSE [client |-> Len(constructed) + 1,
              clients |-> Append(constructed, AWSClientService(config, environment)),
              clientsByKey |-> byKey \cup {[key |-> key,
                                            client |-> Len(constructed) + 1]}]

MaxClientCalls == 4   \* getAWSClient and resetAWSClient calls in a run

\* getAWSClient(config) is called
GetAWSClient(config) ==
    /\ Len(clientCalls) < MaxClientCalls
    /\ LET got == getAWSClient(config, env, clients, clientsByKey)
       IN  /\ clients' = got.clients
           /\ clientsByKey' = got.clientsByKey
           /\ clientCalls' = Append(clientCalls,
                                    [reset |-> FALSE, config |-> config,
                                     client |-> got.client])
    /\ UNCHANGED <<rules, cloudVars, sgVars, piVars, loaderVars, env, toolVars,
                   inFlight>>

\* resetAWSClient() is called
ResetAWSClient ==
    /\ Len(clientCalls) < MaxClientCalls
    /\ clientsByKey' = {}
    /\ clientCalls' = Append(clientCalls, [reset |-> TRUE])
    /\ UNCHANGED <<rules, cloudVars, sgVars, piVars, loaderVars, env, clients,
                   toolVars, inFlight>>

(* The inputs of the client service *)

Environments ==
    {[AWS_REGION |-> region, AWS_ACCESS_KEY_ID |-> credentials[1],
      AWS_SECRET_ACCESS_KEY |-> credentials[2]] :
        region \in {Undefined, Some("eu-west-1")},
        credentials \in {<<Undefined, Undefined>>, <<Some("key1"), Some("secret1")>>}}

ClientConfigs ==
    {Undefined,
     AWSClientConfig(Some("us-east-1"), Undefined, Undefined),
     AWSClientConfig(Some("eu-west-1"), Undefined, Undefined),
     AWSClientConfig(Some("us-east-1"), Some("key1"), Some("secret1")),
     AWSClientConfig(Some("us-east-1"), Some("key1"), Some("secret2")),
     AWSClientConfig(Some("us-east-1"), Some("key2"), Some("secret1")),
     AWSClientConfig(Some("eu-west-1"), Some("key1"), Some("secret1")),
     AWSClientConfig(Undefined, Some("key1"), Some("secret1")),
     AWSClientConfig(Some("us-east-1"), Some("key1"), Undefined)}

InitClient ==
    /\ rules = Some(<<>>)
    /\ cloudGroups = Some(<<>>)
    /\ reservations = Some(<<>>)
    /\ InitIdleSG
    /\ InitIdlePI
    /\ InitIdleLoader
    /\ env \in Environments
    /\ clients = <<>>
    /\ clientsByKey = {}
    /\ clientCalls = <<>>
    /\ toolClient = 0
    /\ toolPc = "idle"
    /\ request = Undefined
    /\ reply = Undefined
    /\ previous = Undefined
    /\ inFlight = [c \in Calls |-> IdleCall]

NextClient ==
    \/ \E config \in ClientConfigs : GetAWSClient(config)
    \/ ResetAWSClient

SpecClient == InitClient /\ [][NextClient]_vars

-----------------------------------------------------------------------------
(* tools/security-groups.ts, tools/public-instances.ts: the two tools.  The *)
(* arguments of a request are [region, groupIds, includeUnused,            *)
(* includeSecurityGroups], each optional.                                  *)

SecurityGroupToolName == "analyze_security_groups"
PublicInstanceToolName == "analyze_public_instances"

CRITICAL_PORT_MAP ==
    <<<<22, "SSH">>, <<3389, "RDP">>, <<3306, "MySQL">>, <<5432, "PostgreSQL">>,
      <<1433, "SQL Server">>, <<6379, "Redis">>, <<27017, "MongoDB">>,
      <<5984, "CouchDB">>>>

\* new Error(message)
NewError(message) == [name |-> "Error", message |-> message]

\* SecurityGroupAnalysisSchema.parse: includeUnused defaults to true
parseSecurityGroupInput(arguments) ==
    [region |-> arguments.region,
     groupIds |-> arguments.groupIds,
     includeUnused |-> OrElse(arguments.includeUnused, TRUE)]

\* PublicInstanceAnalysisSchema.parse: includeSecurityGroups defaults to true
parsePublicInstanceInput(arguments) ==
    [region |-> arguments.region,
     includeSecurityGroups |-> OrElse(arguments.includeSecurityGroups, TRUE)]

\* Recommendations that begin with the generic entries
securityGroupRecommendationsGenericFirst(fs) ==
    LET highRiskCount == CountSeverity(fs, "HIGH")
        mediumRiskCount == CountSeverity(fs, "MEDIUM")
    IN  <<"Regular security group audits should be performed",
          "Consider using AWS Config for continuous compliance monitoring",
          "Implement Infrastructure as Code (IaC) for consistent security group management">>
        \o (IF highRiskCount > 0
            THEN <<"Address " \o ToString(highRiskCount)
                       \o " HIGH severity findings immediately",
                   "Implement principle of least privilege for security group rules",
                   "Use specific IP ranges instead of 0.0.0.0/0 where possible">>
            ELSE <<>>)
        \o (IF mediumRiskCount > 0
            THEN <<"Review " \o ToString(mediumRiskCount) \o " MEDIUM severity findings",
                   "Consider implementing a security group naming convention">>
            ELSE <<>>)

\* SecurityGroupTool.generateRecommendations
securityGroupRecommendations(fs) ==
    LET highRiskCount == CountSeverity(fs, "HIGH")
        mediumRiskCount == CountSeverity(fs, "MEDIUM")
    IN  (IF highRiskCount > 0
         THEN <<"Address " \o ToString(highRiskCount)
                    \o " HIGH severity findings immediately",
                "Implement principle of least privilege for security group rules",
                "Use specific IP ranges instead of 0.0.0.0/0 where possible">>
         ELSE <<>>)
        \o (IF mediumRiskCount > 0
            THEN <<"Review " \o ToString(mediumRiskCount) \o " MEDIUM severity findings",
                   "Consider implementing a security group naming convention">>
            ELSE <<>>)
        \o <<"Regular security group audits should be performed",
             "Consider using AWS Config for continuous compliance monitoring",
             "Implement Infrastructure as Code (IaC) for consistent security group management">>

\* The value SecurityGroupTool.execute returns
securityGroupToolOutput(input, client, timestamp, analysisResult) ==
    [analysisType |-> "security-group",
     region |-> OrElse(input.region, getRegion(client)),
     timestamp |-> timestamp,
     summary |->
        [totalGroups |-> analysisResult.summary.totalGroups,
         highRiskFindings |-> analysisResult.summary.highRiskFindings,
         mediumRiskFindings |-> analysisResult.summary.mediumRiskFindings,
         lowRiskFindings |-> analysisResult.summary.lowRiskFindings,
         riskDistribution |->
            [high |-> analysisResult.summary.highRiskFindings,
             medium |-> analysisResult.summary.mediumRiskFindings,
             low |-> analysisResult.summary.lowRiskFindings]],
     findings |-> analysisResult.findings,
     recommendations |-> securityGroupRecommendations(analysisResult.findings)]

\* PublicInstanceTool.getCriticalPorts
getCriticalPorts(exposedPorts) ==
    LET critical == SelectSeq(exposedPorts, LAMBDA port :
                        \E i \in 1..Len(CRITICAL_PORT_MAP) : CRITICAL_PORT_MAP[i][1] = port)
    IN  [k \in 1..Len(critical) |->
            [port |-> critical[k],
             service |-> (CHOOSE entry \in Range(CRITICAL_PORT_MAP) :
                              entry[1] = critical[k])[2]]]

RECURSIVE sumCriticalPorts(_)
sumCriticalPorts(instances) ==
    IF instances = <<>> THEN 0
    ELSE Len(getCriticalPorts(Head(instances).exposedPorts))
            + sumCriticalPorts(Tail(instances))

\* A risk assessment whose lowRisk counts every instance that is not HIGH
generateRiskAssessmentNotHigh(instances) ==
    LET count(level) == Len(SelectSeq(instances, LAMBDA i : i.riskLevel = level))
    IN  [highRisk |-> count("HIGH"),
         mediumRisk |-> count("MEDIUM"),
         lowRisk |-> Len(instances) - count("HIGH"),
         criticalServiceExposures |-> sumCriticalPorts(instances)]

\* PublicInstanceTool.generateRiskAssessment
generateRiskAssessment(instances) ==
    LET count(level) == Len(SelectSeq(instances, LAMBDA i : i.riskLevel = level))
    IN  [highRisk |-> count("HIGH"),
         mediumRisk |-> count("MEDIUM"),
         lowRisk |-> count("LOW"),
         criticalServiceExposures |-> sumCriticalPorts(instances)]

\* PublicInstanceTool.generateRecommendations
publicInstanceRecommendations(instances, riskAssessment) ==
    IF Len(instances) = 0
    THEN <<"No public instances detected - good security posture",
           "Continue regular monitoring for new public instances">>
    ELSE (IF riskAssessment.highRisk > 0
          THEN <<ToString(riskAssessment.highRisk)
                     \o " high-risk public instances require immediate attention",
                 "Consider moving critical services to private subnets",
                 "Implement bastion hosts or VPN for administrative access">>
          ELSE <<>>)
         \o (IF riskAssessment.criticalServiceExposures > 0
             THEN <<ToString(riskAssessment.criticalServiceExposures)
                        \o " critical service ports exposed",
                    "Use Application Load Balancers to reduce direct instance exposure",
                    "Consider CloudFront for web applications">>
             ELSE <<>>)
         \o <<"Implement Infrastructure as Code for consistent security configurations",
              "Set up CloudWatch alerts for new public instance creation",
              "Regular security assessments should be automated">>

\* Math.round(numerator / denominator) of two naturals, denominator > 0
RoundedQuotient(numerator, denominator) ==
    (2 * numerator + denominator) \div (2 * denominator)

\* The value PublicInstanceTool.execute returns
publicInstanceToolOutput(input, client, timestamp, analysisResult) ==
    LET riskAssessment == generateRiskAssessment(analysisResult.instances)
        summary == analysisResult.summary
    IN  [analysisType |-> "public-instance",
         region |-> OrElse(input.region, getRegion(client)),
         timestamp |-> timestamp,
         summary |->
            [totalInstances |-> summary.totalInstances,
             publicInstances |-> summary.publicInstances,
             totalExposedPorts |-> summary.totalExposedPorts,
             publicExposureRate |->
                IF summary.totalInstances > 0
                THEN ToString(RoundedQuotient(summary.publicInstances * 100,
                                              summary.totalInstances)) \o "%"
                ELSE "0%",
             averageExposedPorts |->
                IF summary.publicInstances > 0
                THEN RoundedQuotient(summary.totalExposedPorts, summary.publicInstances)
                ELSE 0],
         instances |->
            [k \in 1..Len(analysisResult.instances) |->
                [instanceId |-> analysisResult.instances[k].instanceId,
                 publicIp |-> analysisResult.instances[k].publicIp,
                 securityGroups |-> analysisResult.instances[k].securityGroups,
                 exposedPorts |-> analysisResult.instances[k].exposedPorts,
                 riskLevel |-> analysisResult.instances[k].riskLevel,
                 recommendations |-> analysisResult.instances[k].recommendations,
                 criticalPorts |->
                    getCriticalPorts(analysisResult.instances[k].exposedPorts)]],
         riskAssessment |-> riskAssessment,
         recommendations |->
            publicInstanceRecommendations(analysisResult.instances, riskAssessment)]

-----------------------------------------------------------------------------
(* index.ts: the call-tool handler of AWSInfraSecMCPServer, serving one     *)
(* request at a time.  An answer is [result |-> the tool's output], whose   *)
(* JSON text is the content returned, or [error |-> the McpError thrown].   *)

\* new McpError(code, message)
McpError(code, message) == [code |-> code, message |-> message]

\* The catch block of the handler, for an Error that is not an McpError
handlerError(error) ==
    IF error.name = "UnauthorizedOperation"
    THEN McpError("InvalidRequest", "AWS Permission Denied: " \o error.message)
    ELSE IF error.name = "NetworkingError" \/ error.name = "TimeoutError"
    THEN McpError("InternalError", "AWS Connection Error: " \o error.message)
    ELSE McpError("InternalError", "Tool execution failed: " \o error.message)

IsResult(answer) == IsDefined(answer) /\ "result" \in DOMAIN Val(answer)

\* The handler is called with a request: the tool is looked up and its execute
\* runs up to the first await of the analysis
CallTool(name, arguments) ==
    /\ toolPc = "idle"
    /\ request' = Some([name |-> name, arguments |-> arguments])
    /\ previous' = IF IsResult(reply)
                   THEN Some([request |-> Val(request), result |-> Val(reply).result])
                   ELSE previous
    /\ IF name = SecurityGroupToolName
       THEN /\ analyzeStarts(parseSecurityGroupInput(arguments).groupIds)
            /\ toolPc' = "executing"
            /\ reply' = Undefined
            /\ UNCHANGED <<securityGroups, findings, result, piVars>>
       ELSE IF name = PublicInstanceToolName
       THEN /\ piAnalyzeStarts
            /\ toolPc' = "executing"
            /\ reply' = Undefined
            /\ UNCHANGED <<sgVars, allInstances, piIndex, publicInstances, piResult>>
       ELSE /\ reply' = Some([error |-> McpError("MethodNotFound",
                                                 "Unknown tool: " \o name)])
            /\ UNCHANGED <<toolPc, sgVars, piVars>>
    /\ UNCHANGED <<rules, cloudVars, loaderVars, clientVars, toolClient, inFlight>>

\* The analysis has settled: execute resumes, builds its output or rethrows,
\* and the handler answers
ExecuteResumes(timestamp) ==
    /\ toolPc = "executing"
    /\ toolPc' = "idle"
    /\ IF Val(request).name = SecurityGroupToolName
       THEN /\ pc \in {"returned", "thrown"}
            /\ reply' =
                 IF pc = "returned"
                 THEN Some([result |-> securityGroupToolOutput(
                                parseSecurityGroupInput(Val(request).arguments),
                                clients[toolClient], timestamp, result)])
                 ELSE Some([error |-> handlerError(NewError(
                                "Security group analysis failed: " \o result.error))])
            /\ pc' = "idle"
            /\ groupIds' = Undefined
            /\ securityGroups' = <<>>
            /\ findings' = <<>>
            /\ result' = Undefined
            /\ UNCHANGED piVars
       ELSE /\ piPc \in {"returned", "thrown"}
            /\ reply' =
                 IF piPc = "returned"
                 THEN Some([result |-> publicInstanceToolOutput(
                                parsePublicInstanceInput(Val(request).arguments),
                                clients[toolClient], timestamp, piResult)])
                 ELSE Some([error |-> handlerError(NewError(
                                "Public instance analysis failed: " \o piResult.error))])
            /\ piPc' = "idle"
            /\ allInstances' = <<>>
            /\ piIndex' = 0
            /\ publicInstances' = <<>>
            /\ piResult' = Undefined
            /\ UNCHANGED sgVars
    /\ UNCHANGED <<rules, cloudVars, loaderVars, clientVars, toolClient, request,
                   previous, inFlight>>

(* The inputs of the server *)

ToolArguments(region, ids, includeUnused, includeSecurityGroups) ==
    [region |-> region, groupIds |-> ids, includeUnused |-> includeUnused,
     includeSecurityGroups |-> includeSecurityGroups]

Requests ==
    {[name |-> SecurityGroupToolName,
      arguments |-> ToolArguments(region, ids, includeUnused, Undefined)] :
        region \in {Undefined, Some("eu-west-1")},
        ids \in GroupIdArguments,
        includeUnused \in {Undefined, Some(TRUE), Some(FALSE)}}
    \cup {[name |-> PublicInstanceToolName,
           arguments |-> ToolArguments(region, Undefined, Undefined, include)] :
             region \in {Undefined, Some("eu-west-1")},
             include \in {Undefined, Some(FALSE)}}
    \cup {[name |-> "analyze_buckets",
           arguments |-> ToolArguments(Undefined, Undefined, Undefined, Undefined)]}

\* new Date().toISOString() at two instants
Timestamps == {"2025-01-01T00:00:00.000Z", "2025-01-01T00:00:01.000Z"}

\* The errors a fetch of a request is rejected with
ServerFetchErrors ==
    FetchErrors \cup
    {[name |-> "NetworkingError", message |-> "getaddrinfo ENOTFOUND"],
     [name |-> "ThrottlingException", message |-> "Rate exceeded"]}

ToolEnvironments ==
    {[AWS_REGION |-> Some(region), AWS_ACCESS_KEY_ID |-> Undefined,
      AWS_SECRET_ACCESS_KEY |-> Undefined] : region \in {"us-east-1", "eu-west-1"}}

PublicInstance(id, groups) == Instance(Some(id), Some("54.0.0.1"), Running, Attached(groups))

\* Accounts by what the two tools find in them: nothing; a HIGH finding and a
\* HIGH instance; a MEDIUM instance and no finding; a MEDIUM and a LOW finding
\* and an instance without ports; HIGH and MEDIUM findings; a LOW finding and
\* no instance; a stopped instance; a group that opens all protocols, and a
\* port without an end, to the world, attached to an instance
ToolAccounts ==
    {[groups |-> Some(<<>>), reservations |-> Some(<<>>)],
     [groups |-> Some(<<Group(Some("sg-1"), Some("web"),
                     Some(<<Permission(<<Some(22), Some(22)>>, Some("tcp"),
                                       Some(<<PublicIPv4>>), Undefined)>>))>>),
      reservations |-> Some(<<[Instances |->
                        Some(<<PublicInstance("i-1", <<Some("sg-1")>>)>>)]>>)],
     [groups |-> Some(<<Group(Some("sg-1"), Some("web"),
                     Some(<<Permission(<<Some(8080), Some(8085)>>, Some("tcp"),
                                       Some(<<PublicIPv4>>), Undefined)>>))>>),
      reservations |-> Some(<<[Instances |->
                        Some(<<PublicInstance("i-1", <<Some("sg-1")>>)>>)]>>)],
     [groups |-> Some(<<Group(Some("sg-1"), Some("web"),
                     Some(<<Permission(<<Some(0), Some(101)>>, Some("tcp"),
                                       Some(<<"10.0.0.0/8">>), Undefined)>>))>>),
      reservations |-> Some(<<[Instances |->
                        Some(<<PublicInstance("i-1", <<>>)>>)]>>)],
     [groups |-> Some(<<Group(Some("sg-1"), Some("web"),
                     Some(<<Permission(<<Some(22), Some(22)>>, Some("tcp"),
                                       Some(<<PublicIPv4>>), Undefined)>>)),
               Group(Some("sg-2"), Some("batch"),
                     Some(<<Permission(<<Some(1000), Some(2000)>>, Some("tcp"),
                                       Some(<<"10.0.0.0/8">>), Undefined)>>))>>),
      reservations |-> Some(<<[Instances |->
                        Some(<<PublicInstance("i-1", <<Some("sg-1"), Some("sg-2")>>),
                               PublicInstance("i-2", <<Some("sg-2"), Some("sg-3")>>)>>)]>>)],
     [groups |-> Some(<<Group(Some("sg-1"), Some("old"), Undefined)>>),
      reservations |-> Undefined],
     [groups |-> Some(<<Group(Some("sg-2"), Some("default"), Some(<<>>))>>),
      reservations |-> Some(<<[Instances |->
                        Some(<<Instance(Some("i-1"), Some("54.0.0.1"), Stopped,
                                        Attached(<<Some("sg-2")>>))>>)]>>)],
     [groups |-> Some(<<Group(Some("sg-1"), Some("open"),
                     Some(<<Permission(<<Undefined, Undefined>>, Some("-1"),
                                       Some(<<PublicIPv4>>), Undefined),
                            Permission(<<Some(22), Undefined>>, Some("tcp"),
                                       Undefined, Some(<<PublicIPv6>>))>>))>>),
      reservations |-> Some(<<[Instances |->
                        Some(<<PublicInstance("i-1", <<Some("sg-1")>>)>>)]>>)]}

\* The process after its modules are loaded: the two tools hold the client of
\* getAWSClient() and an analyzer constructed on the default catalog
InitTool ==
    /\ env \in ToolEnvironments
    /\ LET first == getAWSClient(Undefined, env, <<>>, {})
           second == getAWSClient(Undefined, env, first.clients, first.clientsByKey)
       IN  /\ clients = second.clients
           /\ clientsByKey = second.clientsByKey
           /\ toolClient = second.client
           /\ clientCalls = <<[reset |-> FALSE, config |-> Undefined,
                               client |-> first.client],
                              [reset |-> FALSE, config |-> Undefined,
                               client |-> second.client]>>
    /\ defaultFile = CatalogFile(TRUE, TRUE, ParsedCatalog(FullCatalog))
    /\ customFile = MissingFile
    /\ LET loading == loadSecurityRules(Undefined, Undefined)
       IN  /\ rules = loading.returned
           /\ cachedRules = loading.cachedRules
           /\ loaded = Some([customPath |-> Undefined, returned |-> loading.returned,
                             read |-> loading.read])
    /\ \E account \in ToolAccounts :
          /\ cloudGroups = account.groups
          /\ reservations = account.reservations
    /\ InitIdleSG
    /\ InitIdlePI
    /\ toolPc = "idle"
    /\ request = Undefined
    /\ reply = Undefined
    /\ previous = Undefined
    /\ inFlight = [c \in Calls |-> IdleCall]

NextTool ==
    \/ \E r \in Requests : CallTool(r.name, r.arguments)
    \/ \E timestamp \in Timestamps : ExecuteResumes(timestamp)
    \/ GroupsFetched
    \/ \E error \in ServerFetchErrors : AnalyzeFetchFailed(error)
    \/ InstancesFetched
    \/ PIInstancesFetched
    \/ PIGroupsFetched
    \/ \E error \in ServerFetchErrors : PIFetchFailed(error)

SpecTool == InitTool /\ [][NextTool]_vars

-----------------------------------------------------------------------------
(* Two analyze calls in flight at once on the same analyzers.  Each call    *)
(* has its own locals; a call is suspended at each await and the calls      *)
(* resume in any order.                                                     *)

otherVars == <<rules, cloudVars, sgVars, piVars, loaderVars, clientVars, toolVars>>

\* SecurityGroupAnalyzer.analyze(ec2Client, ids) is called as call c
CallAnalyze(c, ids) ==
    /\ inFlight[c].pc = "idle"
    /\ inFlight' = [inFlight EXCEPT ![c] =
                       [@ EXCEPT !.kind = "security-group", !.pc = "awaitGroups",
                                 !.groupIds = ids]]
    /\ UNCHANGED otherVars

\* PublicInstanceAnalyzer.analyze(ec2Client) is called as call c
CallPIAnalyze(c) ==
    /\ inFlight[c].pc = "idle"
    /\ inFlight' = [inFlight EXCEPT ![c] =
                       [@ EXCEPT !.kind = "public-instance", !.pc = "awaitInstances"]]
    /\ UNCHANGED otherVars

\* The groups of call c arrive
CallGroupsFetched(c) ==
    /\ inFlight[c].kind = "security-group"
    /\ inFlight[c].pc = "awaitGroups"
    /\ GroupIdsExist(inFlight[c].groupIds)
    /\ LET fetched == OrElse(DescribeSecurityGroups(inFlight[c].groupIds), <<>>)
       IN  inFlight' = [inFlight EXCEPT ![c] =
               IF \E i \in 1..Len(fetched) : analyzeSecurityGroupThrows(rules, fetched[i])
               THEN [@ EXCEPT !.pc = "thrown",
                              !.result = [error |-> "Security group analysis failed: "
                                                     \o "Cannot read properties of undefined"]]
               ELSE [@ EXCEPT !.pc = "awaitInstances",
                              !.securityGroups = fetched,
                              !.findings = Flatten(Map(fetched, LAMBDA sg :
                                   analyzeSecurityGroup(OrElse(rules, <<>>), sg)))]]
    /\ UNCHANGED otherVars

\* The instances of call c, a security-group analysis, arrive as if the
\* findings were a member of the analyzer that every call pushes to
CallInstancesFetchedSharedFindings(c) ==
    /\ inFlight[c].kind = "security-group"
    /\ inFlight[c].pc = "awaitInstances"
    /\ IsDefined(rules)
    /\ LET all == Flatten([d \in 1..Cardinality(Calls) |-> inFlight[d].findings])
                  \o findUnusedSecurityGroups(Val(rules), reservations,
                                              inFlight[c].securityGroups)
       IN  inFlight' = [inFlight EXCEPT ![c] =
               [@ EXCEPT !.pc = "returned",
                         !.findings = all,
                         !.result = [summary |-> generateSummary(
                                                    all, Len(inFlight[c].securityGroups)),
                                     findings |-> all]]]
    /\ UNCHANGED otherVars

\* The instances of call c, a security-group analysis, arrive
CallInstancesFetched(c) ==
    /\ inFlight[c].kind = "security-group"
    /\ inFlight[c].pc = "awaitInstances"
    /\ inFlight' = [inFlight EXCEPT ![c] =
           IF ~IsDefined(rules)
           THEN [@ EXCEPT !.pc = "thrown",
                          !.result = [error |-> "Security group analysis failed: "
                                                 \o "Cannot read properties of undefined"]]
           ELSE LET all == inFlight[c].findings
                             \o findUnusedSecurityGroups(Val(rules), reservations,
                                                         inFlight[c].securityGroups)
                IN  [@ EXCEPT !.pc = "returned",
                              !.findings = all,
                              !.result = [summary |-> generateSummary(
                                                all, Len(inFlight[c].securityGroups)),
                                          findings |-> all]]]
    /\ UNCHANGED otherVars

\* The locals of a public-instance call after its loop has run as far as
\* runInstances says
callContinue(locals, instances, run) ==
    [locals EXCEPT !.allInstances = instances,
                   !.publicInstances = run.infos,
                   !.piIndex = run.index,
                   !.pc = IF run.index = 0 THEN "returned" ELSE "awaitGroups",
                   !.result = IF run.index = 0
                              THEN publicInstanceResult(instances, run.infos)
                              ELSE @]

\* The instances of call c, a public-instance analysis, arrive
CallPIInstancesFetched(c) ==
    /\ inFlight[c].kind = "public-instance"
    /\ inFlight[c].pc = "awaitInstances"
    /\ LET instances == Flatten(Map(OrElse(reservations, <<>>), LAMBDA reservation :
                            OrElse(reservation.Instances, <<>>)))
       IN  inFlight' = [inFlight EXCEPT ![c] =
               callContinue(@, instances, runInstances(instances, 1, <<>>))]
    /\ UNCHANGED otherVars

\* The groups of the instance that call c is handling arrive
CallPIGroupsFetched(c) ==
    /\ inFlight[c].kind = "public-instance"
    /\ inFlight[c].pc = "awaitGroups"
    /\ LET locals == inFlight[c]
           instance == locals.allInstances[locals.piIndex]
           ids == Some(securityGroupIdsOf(instance))
       IN  /\ GroupIdsExist(ids)
           /\ inFlight' = [inFlight EXCEPT ![c] =
                  callContinue(@, locals.allInstances,
                      runInstances(locals.allInstances, locals.piIndex + 1,
                          Append(locals.publicInstances,
                                 publicInstanceInfo(instance,
                                     getExposedPorts(DescribeSecurityGroups(ids))))))]
    /\ UNCHANGED otherVars

\* A fetch of call c is rejected: the catch block of its analyze rethrows
CallFetchFailed(c, error) ==
    /\ inFlight[c].pc \in {"awaitGroups", "awaitInstances"}
    /\ inFlight' = [inFlight EXCEPT ![c] =
           [@ EXCEPT !.pc = "thrown",
                     !.result = [error |-> (IF inFlight[c].kind = "security-group"
                                            THEN "Security group analysis failed: "
                                            ELSE "Public instance analysis failed: ")
                                           \o error.message],
                     !.securityGroups = <<>>, !.findings = <<>>,
                     !.allInstances = <<>>, !.publicInstances = <<>>,
                     !.piIndex = 0]]
    /\ UNCHANGED otherVars

\* Analyzers constructed on the full catalog, no call made
InitCalls ==
    /\ rules = Some(FullCatalog)
    /\ \E account \in ToolAccounts :
          /\ cloudGroups = account.groups
          /\ reservations = account.reservations
    /\ InitIdleSG
    /\ InitIdlePI
    /\ InitIdleServer
    /\ InitIdleLoader

NextCalls ==
    \/ \E c \in Calls, ids \in GroupIdArguments : CallAnalyze(c, ids)
    \/ \E c \in Calls : CallPIAnalyze(c)
    \/ \E c \in Calls : CallGroupsFetched(c)
    \/ \E c \in Calls : CallInstancesFetched(c)
    \/ \E c \in Calls : CallPIInstancesFetched(c)
    \/ \E c \in Calls : CallPIGroupsFetched(c)
    \/ \E c \in Calls, error \in FetchErrors : CallFetchFailed(c, error)

SpecCalls == InitCalls /\ [][NextCalls]_vars

-----------------------------------------------------------------------------
(* Vocabulary of the properties, stated from the records alone *)

\* The permission carries the unrestricted IPv4 or IPv6 range
HasPublicRange(permission) ==
    \/ PublicIPv4 \in Range(OrElse(permission.IpRanges, <<>>))
    \/ PublicIPv6 \in Range(OrElse(permission.Ipv6Ranges, <<>>))

\* The public CIDR a finding names: IPv4 when listed, else IPv6
MatchedCidr(permission) ==
    IF PublicIPv4 \in Range(OrElse(permission.IpRanges, <<>>))
    THEN PublicIPv4 ELSE PublicIPv6

HasPorts(permission) == IsDefined(permission.FromPort) /\ IsDefined(permission.ToPort)

\* The decimal text of an integer
DigitText == <<"0", "1", "2", "3", "4", "5", "6", "7", "8", "9">>
RECURSIVE Decimal(_)
Decimal(n) ==
    IF n < 0 THEN "-" \o Decimal(-n)
    ELSE IF n < 10 THEN DigitText[n + 1]
    ELSE Decimal(n \div 10) \o DigitText[(n % 10) + 1]

\* The multiset of the elements of a sequence
BagOf(s) == [x \in Range(s) |-> Cardinality({i \in 1..Len(s) : s[i] = x})]

\* The permission checks of analyze have run on the fetched groups
Analysed == pc \in {"awaitInstances", "returned"}

\* <<g, k>>: permission k of fetched group g
FetchedPermissions ==
    {<<g, k>> : g \in 1..Len(securityGroups), k \in 1..MaxPerms + 1} \cap
    UNION {{<<g, k>> : k \in 1..Len(OrElse(securityGroups[g].IpPermissions, <<>>))} :
              g \in 1..Len(securityGroups)}

PermAt(gk) == Val(securityGroups[gk[1]].IpPermissions)[gk[2]]
IdAt(gk) == OrElse(securityGroups[gk[1]].GroupId, "unknown")
NameAt(gk) == OrElse(securityGroups[gk[1]].GroupName, "unknown")
DangerousAt(gk) == checkDangerousPorts(Val(rules), PermAt(gk), IdAt(gk), NameAt(gk))
WideAt(gk) == checkWidePortRanges(Val(rules), PermAt(gk), IdAt(gk), NameAt(gk))
AllTrafficAt(gk) == checkAllTrafficRules(Val(rules), PermAt(gk), IdAt(gk), NameAt(gk))

\* The catalog holds a rule of that id; the first such rule
HasRule(id) == \E i \in 1..Len(Val(rules)) : Val(rules)[i].id = id
FirstRule(id) ==
    Val(rules)[CHOOSE i \in 1..Len(Val(rules)) :
        /\ Val(rules)[i].id = id
        /\ \A j \in 1..(i - 1) : Val(rules)[j].id # id]

\* toPort - fromPort of a permission with both ports
PortDifference(permission) == Val(permission.ToPort) - Val(permission.FromPort)

-----------------------------------------------------------------------------
(* C1 *)

\* C1 as stated: a permission with neither 0.0.0.0/0 nor ::/0 yields no finding
\* of any check.  The wide-port-range check refutes it.
C1_NonPublicNoFinding ==
    Analysed =>
        \A gk \in FetchedPermissions :
            ~HasPublicRange(PermAt(gk)) =>
                DangerousAt(gk) \o WideAt(gk) \o AllTrafficAt(gk) = <<>>

\* C1 amended: a permission with neither 0.0.0.0/0 nor ::/0 yields no finding of
\* the dangerous-port check and none of the all-traffic check, whatever its ports,
\* protocol and catalog; the wide-port-range check does not look at the source and
\* reports the permission whenever its ports differ by more than 100 and the
\* catalog holds the wide-range rule.
C1_NonPublicOnlyWideRange ==
    Analysed =>
        /\ \A gk \in FetchedPermissions :
              ~HasPublicRange(PermAt(gk)) =>
                  /\ DangerousAt(gk) = <<>>
                  /\ AllTrafficAt(gk) = <<>>
                  /\ WideAt(gk) # <<>> <=>
                        /\ HasPorts(PermAt(gk))
                        /\ PortDifference(PermAt(gk)) > 100
                        /\ HasRule("sg-wide-port-range")
        /\ (\A gk \in FetchedPermissions : ~HasPublicRange(PermAt(gk))) =>
              \A n \in 1..Len(findings) :
                  findings[n].ruleId \in {"sg-wide-port-range", "sg-unused"}

\* A private all-protocols permission over a wide range is reported for its range
C1_Witness ==
    /\ pc = "awaitInstances"
    /\ \E gk \in FetchedPermissions :
          /\ ~HasPublicRange(PermAt(gk))
          /\ PermAt(gk).IpRanges = Some(<<"10.0.0.0/8">>)
          /\ PermAt(gk).IpProtocol = Some("tcp")
          /\ PermAt(gk).FromPort = Some(22)
          /\ Len(findings) = 1
          /\ findings[1].ruleId = "sg-wide-port-range"

-----------------------------------------------------------------------------
(* C2 *)

\* The catalog rules the dangerous-port check reports for a permission
MatchingRules(permission) ==
    {i \in 1..Len(Val(rules)) :
        /\ IsDefined(Val(rules)[i].port)
        /\ Val(rules)[i].source = Some(PublicIPv4)
        /\ IsDefined(permission.IpProtocol)
        /\ Val(rules)[i].protocol = permission.IpProtocol
        /\ Val(permission.FromPort) <= Val(Val(rules)[i].port)
        /\ Val(Val(rules)[i].port) <= Val(permission.ToPort)}

IsDangerousPortFinding(f) ==
    "affectedRule" \in DOMAIN f /\ "number" \in DOMAIN f.affectedRule.port

Permuted(s, perm) == [i \in 1..Len(s) |-> s[perm[i]]]

\* C2: for a publicly exposed permission with both ports, the dangerous-port check
\* emits exactly one finding for each catalog rule with a port, the source
\* 0.0.0.0/0 and the permission's protocol whose port lies in fromPort..toPort
\* (ends included) and none for any other rule; the finding carries that rule's
\* id and severity, the rule's port and the public CIDR that matched.  The
\* multiset of a group's dangerous-port findings is the same for every order of
\* its permissions.
C2_DangerousPortFindings ==
    Analysed =>
        /\ \A gk \in FetchedPermissions :
              (HasPublicRange(PermAt(gk)) /\ HasPorts(PermAt(gk))) =>
                  LET found == DangerousAt(gk)
                      matching == MatchingRules(PermAt(gk))
                  IN  /\ Len(found) = Cardinality(matching)
                      /\ \A i \in matching :
                            Cardinality({n \in 1..Len(found) :
                                /\ found[n].ruleId = Val(rules)[i].id
                                /\ found[n].severity = Val(rules)[i].severity
                                /\ found[n].affectedRule.port =
                                       [number |-> Val(Val(rules)[i].port)]
                                /\ found[n].affectedRule.source =
                                       MatchedCidr(PermAt(gk))}) = 1
                      /\ \A n \in 1..Len(found) : found[n] \in Range(findings)
        /\ \A g \in 1..Len(securityGroups) :
              LET sg == securityGroups[g]
                  permissions == OrElse(sg.IpPermissions, <<>>)
                  dangerous(group) ==
                      BagOf(SelectSeq(analyzeSecurityGroup(Val(rules), group),
                                      IsDangerousPortFinding))
              IN  \A perm \in Permutations(1..Len(permissions)) :
                      dangerous([sg EXCEPT !.IpPermissions =
                                     Some(Permuted(permissions, perm))])
                          = dangerous(sg)
                      /\ BagOf(SelectSeq(findings, IsDangerousPortFinding))
                            = BagOf(SelectSeq(
                                Flatten([h \in 1..Len(securityGroups) |->
                                    analyzeSecurityGroup(Val(rules),
                                        IF h = g
                                        THEN [sg EXCEPT !.IpPermissions =
                                                 Some(Permuted(permissions, perm))]
                                        ELSE securityGroups[h])]),
                                IsDangerousPortFinding))

\* Two permissions of one group: port 22 open to 0.0.0.0/0, and a span over 22
\* and 3389 that is public through ::/0 only
C2_Witness ==
    /\ pc = "awaitInstances"
    /\ Len(securityGroups) = 1
    /\ Len(OrElse(securityGroups[1].IpPermissions, <<>>)) = 2
    /\ MatchingRules(PermAt(<<1, 1>>)) # {}
    /\ Cardinality(MatchingRules(PermAt(<<1, 2>>))) = 2
    /\ PublicIPv4 \notin Range(OrElse(PermAt(<<1, 2>>).IpRanges, <<>>))
    /\ Val(PermAt(<<1, 2>>).ToPort) = 3389
    /\ Len(findings) >= 3
    /\ findings[1].affectedRule.source = PublicIPv4
    /\ findings[2].affectedRule.source = PublicIPv6


-----------------------------------------------------------------------------
(* C5, C6 *)

\* The group ids attached to an instance of the DescribeInstances answer
AttachedGroupIds ==
    {id \in {"sg-1", "sg-2", "unknown"} :
        \E r \in 1..Len(OrElse(reservations, <<>>)) :
            LET instances == OrElse(Val(reservations)[r].Instances, <<>>)
            IN  \E n \in 1..Len(instances) :
                    LET attached == OrElse(instances[n].SecurityGroups, <<>>)
                    IN  \E a \in 1..Len(attached) : attached[a].GroupId = Some(id)}

IsUnusedFinding(f) == f.ruleId = "sg-unused" /\ "affectedRule" \notin DOMAIN f

\* The fetched groups that are attached to no instance and not named "default"
\* (a group record without an id has no id to look up and none to report)
UnattachedGroups ==
    {g \in 1..Len(securityGroups) :
        /\ IsDefined(securityGroups[g].GroupId)
        /\ Val(securityGroups[g].GroupId) \notin AttachedGroupIds
        /\ securityGroups[g].GroupName # Some("default")}

\* C5: with the unused-group rule in the catalog, a fetched group yields an
\* unused-group finding iff its id is attached to no instance and its name is not
\* "default"; it yields exactly one, and a group named "default" yields none
\* even when it is attached to nothing.
C5_UnusedGroupsFlaggedOnce ==
    (pc = "returned" /\ HasRule("sg-unused")) =>
        LET unused == SelectSeq(result.findings, IsUnusedFinding)
        IN  /\ Len(unused) = Cardinality(UnattachedGroups)
            /\ \A id \in {"sg-1", "sg-2"} :
                  Cardinality({n \in 1..Len(unused) : unused[n].securityGroupId = id})
                      = Cardinality({g \in UnattachedGroups :
                                        securityGroups[g].GroupId = Some(id)})
            /\ \A g \in 1..Len(securityGroups) :
                  securityGroups[g].GroupName = Some("default") =>
                      \A n \in 1..Len(unused) :
                          unused[n].securityGroupName # "default"

\* Two fetched groups attached to nothing: "web" is reported once, "default" is not
C5_Witness ==
    /\ pc = "returned"
    /\ HasRule("sg-unused")
    /\ Len(securityGroups) = 2
    /\ securityGroups[1].GroupId = Some("sg-2")
    /\ securityGroups[1].GroupName = Some("default")
    /\ securityGroups[2].GroupId = Some("sg-1")
    /\ securityGroups[2].GroupName = Some("web")
    /\ AttachedGroupIds = {}
    /\ Len(result.findings) = 1
    /\ result.findings[1].ruleId = "sg-unused"
    /\ result.findings[1].securityGroupId = "sg-1"

\* C6 as stated: every unused-group finding has severity LOW, for every catalog
\* that holds the unused-group rule.  A catalog whose rule has another severity
\* refutes it.
C6_UnusedFindingIsLow ==
    (pc = "returned" /\ HasRule("sg-unused")) =>
        \A n \in 1..Len(result.findings) :
            IsUnusedFinding(result.findings[n]) =>
                result.findings[n].severity = "LOW"

\* C6 amended: every unused-group finding has the severity that the catalog
\* gives its (first) unused-group rule, which is LOW in the shipped catalog, and
\* is counted in the summary under that severity.
C6_UnusedFindingHasRuleSeverity ==
    (pc = "returned" /\ HasRule("sg-unused")) =>
        LET severity == FirstRule("sg-unused").severity
            count(s) == Cardinality({n \in 1..Len(result.findings) :
                            result.findings[n].severity = s})
        IN  /\ \A n \in 1..Len(result.findings) :
                  IsUnusedFinding(result.findings[n]) =>
                      result.findings[n].severity = severity
            /\ rules = Some(FullCatalog) => severity = "LOW"
            /\ result.summary.lowRiskFindings = count("LOW")
            /\ result.summary.mediumRiskFindings = count("MEDIUM")
            /\ result.summary.highRiskFindings = count("HIGH")

\* An unused group under a catalog whose unused-group rule is MEDIUM
C6_Witness ==
    /\ pc = "returned"
    /\ HasRule("sg-unused")
    /\ FirstRule("sg-unused").severity = "MEDIUM"
    /\ Len(result.findings) = 1
    /\ IsUnusedFinding(result.findings[1])
    /\ result.findings[1].severity = "MEDIUM"
    /\ result.summary.mediumRiskFindings = 1
    /\ result.summary.lowRiskFindings = 0

-----------------------------------------------------------------------------
(* C7, C8 *)

\* The source the wide-range finding names
FirstListedSource(permission) ==
    IF OrElse(permission.IpRanges, <<>>) # <<>> THEN Val(permission.IpRanges)[1]
    ELSE IF OrElse(permission.Ipv6Ranges, <<>>) # <<>> THEN Val(permission.Ipv6Ranges)[1]
    ELSE "unknown"

\* The text "<fromPort>-<toPort>"
SpanText(permission) ==
    Decimal(Val(permission.FromPort)) \o "-" \o Decimal(Val(permission.ToPort))

C8_MoreThan100PortsReported ==
    Analysed =>
        \A gk \in FetchedPermissions :
            (HasPorts(PermAt(gk)) /\ PortDifference(PermAt(gk)) + 1 > 100
                 /\ HasRule("sg-wide-port-range")) =>
                \E n \in 1..Len(findings) :
                    /\ findings[n].ruleId = "sg-wide-port-range"
                    /\ findings[n].affectedRule.port = [string |-> SpanText(PermAt(gk))]

-----------------------------------------------------------------------------
(* C9 *)

\* C9: for a publicly exposed permission of protocol "-1", under a catalog with
\* the all-traffic rule, the all-traffic check emits exactly one finding, with
\* affectedRule = {port: "all", protocol: "all", source: 0.0.0.0/0 when the IPv4
\* range is public, otherwise ::/0}; for any other protocol, and for a permission
\* that is not public, it emits none.
C9_AllTrafficFinding ==
    Analysed =>
        \A gk \in FetchedPermissions :
            LET permission == PermAt(gk)
                all == AllTrafficAt(gk)
            IN  IF permission.IpProtocol = Some("-1") /\ HasPublicRange(permission)
                THEN HasRule("sg-all-traffic") =>
                        /\ Len(all) = 1
                        /\ all[1].ruleId = "sg-all-traffic"
                        /\ all[1].affectedRule =
                              [port |-> [string |-> "all"], protocol |-> "all",
                               source |-> MatchedCidr(permission)]
                        /\ all[1] \in Range(findings)
                ELSE all = <<>>

\* An all-protocols permission that is public through ::/0 only
C9_Witness ==
    /\ pc = "awaitInstances"
    /\ HasRule("sg-all-traffic")
    /\ \E gk \in FetchedPermissions :
          /\ PermAt(gk).IpProtocol = Some("-1")
          /\ PermAt(gk).IpRanges = Some(<<"10.0.0.0/8">>)
          /\ PermAt(gk).Ipv6Ranges = Some(<<"fd00::/8", PublicIPv6>>)
          /\ ~HasPorts(PermAt(gk))
          /\ Len(findings) = 1
          /\ findings[1].affectedRule =
                [port |-> [string |-> "all"], protocol |-> "all", source |-> PublicIPv6]


-----------------------------------------------------------------------------
(* C3, C4 *)

\* The instances of the DescribeInstances answer, in order
ServedInstances ==
    Flatten([r \in 1..Len(OrElse(reservations, <<>>)) |->
                OrElse(Val(reservations)[r].Instances, <<>>)])

\* Those with a public IP address and state running
PublicRunningInstances ==
    SelectSeq(ServedInstances, LAMBDA instance :
        /\ IsDefined(instance.PublicIpAddress)
        /\ instance.State = Some([Name |-> Some("running")]))

\* The ports that the groups attached to an instance expose publicly
PubliclyExposedPorts(instance) ==
    LET attachedIds ==
            {Val(a.GroupId) : a \in {b \in Range(OrElse(instance.SecurityGroups, <<>>)) :
                                        IsDefined(b.GroupId)}}
        attachedGroups ==
            {sg \in Range(OrElse(cloudGroups, <<>>)) :
                IsDefined(sg.GroupId) /\ Val(sg.GroupId) \in attachedIds}
    IN  UNION {Val(permission.FromPort)..Val(permission.ToPort) :
                  permission \in
                      {q \in UNION {Range(OrElse(sg.IpPermissions, <<>>)) :
                                       sg \in attachedGroups} :
                          HasPublicRange(q) /\ HasPorts(q)}}

StrictlyAscending(ports) ==
    \A i \in 1..(Len(ports) - 1) : ports[i] < ports[i + 1]

\* C3: for every public running instance, exposedPorts is strictly ascending and
\* holds exactly the integers p such that some permission of some attached group
\* is publicly exposed, has both ports, and fromPort <= p <= toPort, whatever the
\* permission's protocol.
C3_ExposedPortsSortedUnion ==
    /\ Len(publicInstances) <= Len(PublicRunningInstances)
    /\ piPc = "returned" =>
          /\ Len(piResult.instances) = Len(PublicRunningInstances)
          /\ piResult.instances = publicInstances
    /\ \A n \in 1..Len(publicInstances) :
          /\ StrictlyAscending(publicInstances[n].exposedPorts)
          /\ Range(publicInstances[n].exposedPorts)
                = PubliclyExposedPorts(PublicRunningInstances[n])

\* An instance attached to sg-2 and sg-1: sg-1 opens 8083-8087/tcp and
\* 8080-8085/udp, sg-2 opens 80/tcp and 22/udp
C3_Witness ==
    /\ piPc = "returned"
    /\ Len(piResult.instances) = 2
    /\ piResult.instances[2].exposedPorts
          = <<22, 80, 8080, 8081, 8082, 8083, 8084, 8085, 8086, 8087>>
    /\ Val(cloudGroups)[1].IpPermissions # Undefined
    /\ Val(Val(cloudGroups)[1].IpPermissions)[1].FromPort = Some(8083)

DangerousPortSet == {22, 3389, 3306, 5432, 1433, 6379, 27017, 5984}

RiskOf(ports) ==
    IF Range(ports) \cap DangerousPortSet # {} THEN "HIGH"
    ELSE IF Len(ports) > 5 THEN "MEDIUM"
    ELSE "LOW"

\* C4: riskLevel is a function of exposedPorts alone: HIGH iff exposedPorts holds
\* one of 22, 3389, 3306, 5432, 1433, 6379, 27017, 5984; otherwise MEDIUM iff it
\* has more than 5 elements (exactly 5 is not MEDIUM); otherwise LOW.  [22,3306]
\* is HIGH, [80,443,8080,8081,8082,8083] is MEDIUM and [443] is LOW.
C4_RiskLevelOfExposedPorts ==
    /\ \A n \in 1..Len(publicInstances) :
          publicInstances[n].riskLevel = RiskOf(publicInstances[n].exposedPorts)
    /\ piPc = "returned" =>
          /\ assessRisk(<<22, 3306>>) = "HIGH"
          /\ assessRisk(<<80, 443, 8080, 8081, 8082, 8083>>) = "MEDIUM"
          /\ assessRisk(<<80, 443, 8080, 8081, 8082>>) = "LOW"
          /\ assessRisk(<<443>>) = "LOW"
          /\ \A d \in DangerousPortSet : assessRisk(<<d>>) = "HIGH"

\* Two instances in one result: exactly five ports, none dangerous (LOW), and
\* port 22 among seven ports (HIGH)
C4_Witness ==
    /\ piPc = "returned"
    /\ Len(piResult.instances) = 2
    /\ piResult.instances[1].exposedPorts = <<8083, 8084, 8085, 8086, 8087>>
    /\ piResult.instances[1].riskLevel = "LOW"
    /\ piResult.instances[2].exposedPorts
          = <<22, 80, 8083, 8084, 8085, 8086, 8087>>
    /\ piResult.instances[2].riskLevel = "HIGH"

\* Six ports, none of them dangerous: MEDIUM
C4_WitnessMedium ==
    /\ piPc = "returned"
    /\ Len(piResult.instances) = 1
    /\ piResult.instances[1].exposedPorts = <<8080, 8081, 8082, 8083, 8084, 8085>>
    /\ piResult.instances[1].riskLevel = "MEDIUM"

-----------------------------------------------------------------------------
(* The rule catalog that cannot be loaded *)

\* A catalog file that is missing, unreadable or malformed: no JSON, or JSON
\* that holds no rules member
BadCatalog(file) ==
    \/ ~file.exists
    \/ ~file.readable
    \/ ~IsDefined(file.parsed)
    \/ Val(file.parsed).isNull
    \/ ~IsDefined(Val(file.parsed).rules)

\* The file the last call of loadSecurityRules named
FileOf(call) == FileAt(OrElse(call.customPath, DEFAULT_RULES_PATH))

FetchFailureMessages ==
    {"Security group analysis failed: " \o error.message : error \in FetchErrors}

\* C10: loading the catalog always yields a rule list, the empty one for a
\* missing, unreadable or malformed file (invalid JSON, or JSON without a rules
\* array); an analysis by an analyzer built on such a result never fails for
\* want of rules and returns without any finding of a permission check.
C10_LoadYieldsRuleListAndAnalysisCompletes ==
    /\ IsDefined(loaded) =>
          /\ IsDefined(Val(loaded).returned)
          /\ BadCatalog(FileOf(Val(loaded))) => Val(loaded).returned = Some(<<>>)
    /\ (pc # "noAnalyzer" /\ BadCatalog(defaultFile) /\ BadCatalog(customFile)) =>
          /\ rules = Some(<<>>)
          /\ pc = "thrown" => result.error \in FetchFailureMessages
          /\ pc = "returned" => result.findings = <<>>

\* The part of C10 that the loader keeps: but for a call with the empty path,
\* a file that is missing, unreadable, not JSON, or the JSON null yields the
\* empty list, and the analysis on it completes without a finding
LoadOfUnparsableCatalogIsEmpty ==
    LET Unparsable(file) ==
            \/ ~file.exists
            \/ ~file.readable
            \/ ~IsDefined(file.parsed)
            \/ Val(file.parsed).isNull
    IN  /\ (/\ IsDefined(loaded)
            /\ Val(loaded).customPath # Some("")
            /\ Unparsable(FileOf(Val(loaded)))) =>
               Val(loaded).returned = Some(<<>>)
        /\ (pc # "noAnalyzer" /\ Unparsable(defaultFile) /\ Unparsable(customFile)) =>
               /\ rules = Some(<<>>)
               /\ pc = "thrown" => result.error \in FetchFailureMessages
               /\ pc = "returned" => result.findings = <<>>

\* The analysis of an analyzer constructed on a catalog without a rules member
\* ends in the TypeError of a read of undefined
AnalysisFailsOnCatalogWithoutRules ==
    /\ defaultFile = NoRulesFile
    /\ rules = Undefined
    /\ pc = "thrown"
    /\ result.error \notin FetchFailureMessages

-----------------------------------------------------------------------------
(* C11, C12: the memoized catalog *)

\* What reading a catalog file yields
FreshRules(file) ==
    IF \/ ~file.exists
       \/ ~file.readable
       \/ ~IsDefined(file.parsed)
       \/ Val(file.parsed).isNull
    THEN Some(<<>>)
    ELSE Val(file.parsed).rules

\* A file whose load succeeds: JSON that holds a rule list
HoldsCatalog(file) ==
    /\ file.exists
    /\ file.readable
    /\ IsDefined(file.parsed)
    /\ ~Val(file.parsed).isNull
    /\ IsDefined(Val(file.parsed).rules)

\* C11: once a default-path load has succeeded, every default-path load returns
\* the memoized list without reading the file, whatever the file has become,
\* and the memo ends only by clearRulesCache; a default-path load on an empty
\* memo (the first one, or the first after a reset) reads the catalog, returns
\* what the file holds and memoizes it.
C11_MemoizedUntilReset ==
    [][/\ (LoadSecurityRules(Undefined) /\ IsDefined(cachedRules)) =>
              /\ Val(loaded').returned = cachedRules
              /\ ~Val(loaded').read
              /\ cachedRules' = cachedRules
       /\ (LoadSecurityRules(Undefined) /\ ~IsDefined(cachedRules)) =>
              /\ Val(loaded').returned = FreshRules(defaultFile)
              /\ defaultFile.exists => Val(loaded').read
              /\ HoldsCatalog(defaultFile) =>
                     cachedRules' = Val(defaultFile.parsed).rules
       /\ (IsDefined(cachedRules) /\ cachedRules' # cachedRules) =>
              ClearRulesCache
       /\ ClearRulesCache => cachedRules' = Undefined
      ]_vars

\* A default-path load answered from the memo although the file now holds
\* something else
C11_Witness ==
    /\ IsDefined(cachedRules)
    /\ loaded = Some([customPath |-> Undefined, returned |-> cachedRules,
                      read |-> FALSE])
    /\ HoldsCatalog(defaultFile)
    /\ FreshRules(defaultFile) # cachedRules

\* C12: a load with an explicit path leaves the memo as it is and is never
\* answered from it: it returns what the file at that path holds, reading it
\* when it exists, whether the memo is empty or populated.
C12_ExplicitPathBypassesCache ==
    [][\A customPath \in {Some(""), Some(CustomRulesPath)} :
          LoadSecurityRules(customPath) =>
              /\ cachedRules' = cachedRules
              /\ Val(loaded').returned = FreshRules(FileAt(Val(customPath)))
              /\ FileAt(Val(customPath)).exists => Val(loaded').read
      ]_vars

\* The part of C12 that holds: a load with a non-empty explicit path
NonEmptyPathBypassesCache ==
    [][LoadSecurityRules(Some(CustomRulesPath)) =>
          /\ cachedRules' = cachedRules
          /\ Val(loaded').returned = FreshRules(customFile)
          /\ customFile.exists => Val(loaded').read
      ]_vars

\* loadSecurityRules('') answered from a populated memo
EmptyPathAnsweredFromCache ==
    /\ IsDefined(cachedRules)
    /\ cachedRules # Some(<<>>)
    /\ loaded = Some([customPath |-> Some(""), returned |-> cachedRules,
                      read |-> FALSE])

-----------------------------------------------------------------------------
(* C13 *)

\* The messages of an analysis that a rejected fetch ended
FailureMessages(prefix) == {prefix \o ": " \o error.message : error \in ServerFetchErrors}

SecurityGroupFetchFails == \E error \in ServerFetchErrors : AnalyzeFetchFailed(error)

PublicInstanceFetchFails == \E error \in ServerFetchErrors : PIFetchFailed(error)

\* C13: a step in which a fetch of an analysis is rejected (the group fetch or
\* the instance fetch of the security-group analysis, the instance fetch or a
\* per-instance group fetch of the public-instance analysis) ends the analysis
\* with one failure, whose message begins with "Security group analysis
\* failed" or "Public instance analysis failed"; the analysis then holds no
\* findings, no summary and no instances, it sends no further fetch, and the
\* tool answers with an error and no result.
C13_FetchFailureAbortsAnalysis ==
    /\ [][SecurityGroupFetchFails =>
             /\ pc' = "thrown"
             /\ DOMAIN result' = {"error"}
             /\ result'.error \in FailureMessages("Security group analysis failed")
             /\ findings' = <<>>]_vars
    /\ [][PublicInstanceFetchFails =>
             /\ piPc' = "thrown"
             /\ DOMAIN piResult' = {"error"}
             /\ piResult'.error \in FailureMessages("Public instance analysis failed")
             /\ publicInstances' = <<>>]_vars
    /\ [][(pc = "thrown" => pc' \in {"thrown", "idle"})
          /\ (piPc = "thrown" => piPc' \in {"thrown", "idle"})]_vars
    /\ [][((pc = "thrown" \/ piPc = "thrown") /\ toolPc' = "idle") =>
             (IsDefined(reply') /\ DOMAIN Val(reply') = {"error"})]_vars

\* A fetch of the public-instance analysis of an account with two public
\* instances timed out and the call was answered: the tool prefixes the
\* message of the analyzer once more
C13_Witness ==
    /\ toolPc = "idle"
    /\ IsDefined(request) /\ Val(request).name = PublicInstanceToolName
    /\ Len(OrElse(reservations, <<>>)) = 1
    /\ Len(OrElse(reservations[1][1].Instances, <<>>)) = 2
    /\ IsDefined(reply)
    /\ DOMAIN Val(reply) = {"error"}
    /\ Val(reply).error.message
          = "Tool execution failed: Public instance analysis failed: "
              \o "Public instance analysis failed: socket timed out"

-----------------------------------------------------------------------------
(* C14 *)

RiskRank(level) == CASE level = "LOW" -> 1 [] level = "MEDIUM" -> 2 [] level = "HIGH" -> 3

\* C14: whenever the exposed ports of one instance are those of another with
\* one dangerous port added, its risk level is at least the other's in the
\* order LOW < MEDIUM < HIGH.
C14_DangerousPortNeverLowersRisk ==
    \A m, n \in 1..Len(publicInstances) :
        \A d \in DangerousPortSet :
            Range(publicInstances[n].exposedPorts)
                = Range(publicInstances[m].exposedPorts) \cup {d}
            => RiskRank(publicInstances[n].riskLevel)
                   >= RiskRank(publicInstances[m].riskLevel)

\* Five ports with 22 among them, and the same with 3306 added: six ports
C14_Witness ==
    /\ piPc = "returned"
    /\ Len(piResult.instances) = 2
    /\ piResult.instances[1].exposedPorts = <<22, 8080, 8081, 8082, 8083>>
    /\ piResult.instances[1].riskLevel = "HIGH"
    /\ piResult.instances[2].exposedPorts = <<22, 3306, 8080, 8081, 8082, 8083>>
    /\ piResult.instances[2].riskLevel = "HIGH"

-----------------------------------------------------------------------------
(* C15 *)

\* The run answered now and the last run answered with a result before it are
\* runs of the same analysis on the same fetched records: the account and the
\* rule list do not change, so the records fetched depend on the tool and, for
\* the security-group analysis, on the group ids asked for
SameRunAgain ==
    /\ toolPc = "idle"
    /\ IsResult(reply)
    /\ IsDefined(previous)
    /\ Val(previous).request.name = Val(request).name
    /\ parseSecurityGroupInput(Val(previous).request.arguments).groupIds
          = parseSecurityGroupInput(Val(request).arguments).groupIds

\* C15: two runs of the security-group analysis, or of the public-instance
\* analysis, on identical fetched records and an identical rule list return
\* identical findings and summaries, respectively identical instance exposures
\* and summaries, in identical order, whatever was run between them.
C15_RunsOnIdenticalInputsAgree ==
    SameRunAgain =>
        LET now == Val(reply).result
            before == Val(previous).result
        IN  /\ now.summary = before.summary
            /\ now.recommendations = before.recommendations
            /\ Val(request).name = SecurityGroupToolName =>
                   now.findings = before.findings
            /\ Val(request).name = PublicInstanceToolName =>
                   /\ now.instances = before.instances
                   /\ now.riskAssessment = before.riskAssessment

\* Two runs of the security-group analysis at different instants, each with
\* two findings
C15_Witness ==
    /\ SameRunAgain
    /\ Val(request).name = SecurityGroupToolName
    /\ Len(Val(reply).result.findings) = 2
    /\ Val(reply).result.timestamp # Val(previous).result.timestamp

\* Two runs of the public-instance analysis with an exposed instance
C15_WitnessInstances ==
    /\ SameRunAgain
    /\ Val(request).name = PublicInstanceToolName
    /\ Len(Val(reply).result.instances) = 1
    /\ Val(reply).result.instances[1].exposedPorts # <<>>

-----------------------------------------------------------------------------
(* C16 *)

\* The entries of a remediation list, by what drives them
HighDriven(tool, n) ==
    IF tool = SecurityGroupToolName
    THEN <<"Address " \o ToString(n) \o " HIGH severity findings immediately",
           "Implement principle of least privilege for security group rules",
           "Use specific IP ranges instead of 0.0.0.0/0 where possible">>
    ELSE <<ToString(n) \o " high-risk public instances require immediate attention",
           "Consider moving critical services to private subnets",
           "Implement bastion hosts or VPN for administrative access">>

MediumDriven(n) ==
    <<"Review " \o ToString(n) \o " MEDIUM severity findings",
      "Consider implementing a security group naming convention">>

CriticalPortDriven(n) ==
    <<ToString(n) \o " critical service ports exposed",
      "Use Application Load Balancers to reduce direct instance exposure",
      "Consider CloudFront for web applications">>

BestPractice(tool) ==
    IF tool = SecurityGroupToolName
    THEN <<"Regular security group audits should be performed",
           "Consider using AWS Config for continuous compliance monitoring",
           "Implement Infrastructure as Code (IaC) for consistent security group management">>
    ELSE <<"Implement Infrastructure as Code for consistent security configurations",
           "Set up CloudWatch alerts for new public instance creation",
           "Regular security assessments should be automated">>

NoPublicInstances ==
    <<"No public instances detected - good security posture",
      "Continue regular monitoring for new public instances">>

When(condition, entries) == IF condition THEN entries ELSE <<>>

\* A tool result was answered
Answered == toolPc = "idle" /\ IsResult(reply)

\* The HIGH findings or HIGH-risk instances, and the MEDIUM findings, of the
\* result answered
HighCount ==
    IF Val(request).name = SecurityGroupToolName
    THEN CountSeverity(Val(reply).result.findings, "HIGH")
    ELSE Cardinality({k \in 1..Len(Val(reply).result.instances) :
                         Val(reply).result.instances[k].riskLevel = "HIGH"})

MediumCount ==
    IF Val(request).name = SecurityGroupToolName
    THEN CountSeverity(Val(reply).result.findings, "MEDIUM")
    ELSE 0

\* The critical-service ports the instances of the result expose, counted per
\* instance
CriticalPortCount ==
    LET instances == Val(reply).result.instances
        critical == {CRITICAL_PORT_MAP[i][1] : i \in 1..Len(CRITICAL_PORT_MAP)}
    IN  Cardinality({<<k, port>> \in (1..Len(instances)) \X critical :
                        port \in Range(instances[k].exposedPorts)})

\* C16 as stated: the remediation list of every tool result is the HIGH-driven
\* entries (present iff there is a HIGH finding or a HIGH-risk instance), then
\* the MEDIUM-driven entries (present iff there is a MEDIUM finding), then
\* the generic best-practice entries, which are always appended last.
C16_HighThenMediumThenGeneric ==
    Answered =>
        Val(reply).result.recommendations
            = When(HighCount > 0, HighDriven(Val(request).name, HighCount))
              \o When(MediumCount > 0, MediumDriven(MediumCount))
              \o BestPractice(Val(request).name)

\* C16, amended: the remediation list of a security-group result is the
\* HIGH-driven entries (present iff there is a HIGH finding), then the
\* MEDIUM-driven entries (present iff there is a MEDIUM finding), then the
\* generic entries, for every mix of severities including the empty one.  The
\* list of a public-instance result without public instances is the two
\* entries saying so, without generic entries; with public instances it is
\* the HIGH-driven entries (present iff there is a HIGH-risk instance), then
\* the critical-service entries (present iff an instance exposes a
\* critical-service port), then the generic entries.
C16_OrderedRecommendations ==
    Answered =>
        LET tool == Val(request).name
            recommendations == Val(reply).result.recommendations
        IN  IF tool = SecurityGroupToolName
            THEN recommendations
                    = When(HighCount > 0, HighDriven(tool, HighCount))
                      \o When(MediumCount > 0, MediumDriven(MediumCount))
                      \o BestPractice(tool)
            ELSE IF Val(reply).result.instances = <<>>
            THEN recommendations = NoPublicInstances
            ELSE recommendations
                    = When(HighCount > 0, HighDriven(tool, HighCount))
                      \o When(CriticalPortCount > 0,
                              CriticalPortDriven(CriticalPortCount))
                      \o BestPractice(tool)

\* A security-group result with a HIGH and a MEDIUM finding: eight entries
C16_Witness ==
    /\ Answered
    /\ Val(request).name = SecurityGroupToolName
    /\ HighCount > 0
    /\ MediumCount > 0
    /\ Len(Val(reply).result.recommendations) = 8

\* A public-instance result without public instances, and one with a
\* LOW-risk instance that exposes no critical-service port
C16_WitnessNoPublicInstances ==
    /\ Answered
    /\ Val(request).name = PublicInstanceToolName
    /\ Val(reply).result.instances = <<>>

C16_WitnessGenericOnly ==
    /\ Answered
    /\ Val(request).name = PublicInstanceToolName
    /\ Val(reply).result.instances # <<>>
    /\ Val(reply).result.recommendations = BestPractice(PublicInstanceToolName)

-----------------------------------------------------------------------------
(* C17 *)

\* The request served is analyze_security_groups with this includeUnused
AsksIncludeUnused(flag) ==
    /\ IsDefined(request)
    /\ Val(request).name = SecurityGroupToolName
    /\ parseSecurityGroupInput(Val(request).arguments).includeUnused = flag

\* The groups of the account that the request served asks for
GroupsAskedFor ==
    Range(OrElse(DescribeSecurityGroups(
                     parseSecurityGroupInput(Val(request).arguments).groupIds), <<>>))

\* C17: when analyze_security_groups is called with includeUnused = false the
\* check for unused groups is not performed (the instances are not fetched
\* for it) and the result holds no unused-group finding; with includeUnused
\* true or absent the unused groups are reported.
C17_IncludeUnusedHonoured ==
    /\ AsksIncludeUnused(FALSE) =>
          /\ pc # "awaitInstances"
          /\ Answered =>
                \A n \in 1..Len(Val(reply).result.findings) :
                    ~IsUnusedFinding(Val(reply).result.findings[n])
    /\ (AsksIncludeUnused(TRUE) /\ Answered) =>
          \A sg \in GroupsAskedFor :
              (Val(sg.GroupId) \notin AttachedGroupIds
               /\ sg.GroupName # Some("default")) =>
                  \E n \in 1..Len(Val(reply).result.findings) :
                      /\ IsUnusedFinding(Val(reply).result.findings[n])
                      /\ Val(reply).result.findings[n].securityGroupId
                            = Val(sg.GroupId)

\* What the code does: the unused groups are reported whatever includeUnused is
UnusedGroupsReportedWhateverAsked ==
    (Answered /\ Val(request).name = SecurityGroupToolName) =>
        \A sg \in GroupsAskedFor :
            (Val(sg.GroupId) \notin AttachedGroupIds
             /\ sg.GroupName # Some("default")) =>
                \E n \in 1..Len(Val(reply).result.findings) :
                    /\ IsUnusedFinding(Val(reply).result.findings[n])
                    /\ Val(reply).result.findings[n].securityGroupId
                          = Val(sg.GroupId)

\* A call with includeUnused = false answered with an unused-group finding
UnusedReportedDespiteFalse ==
    /\ AsksIncludeUnused(FALSE)
    /\ Answered
    /\ \E n \in 1..Len(Val(reply).result.findings) :
          IsUnusedFinding(Val(reply).result.findings[n])

-----------------------------------------------------------------------------
(* C18 *)

\* The region of the client whose EC2 client sends the fetches of a call: the
\* one the tool was constructed with
ServingRegion == clients[toolClient].region

\* C18: the region reported in the output of a tool call equals the region of
\* the client that served the fetches of that call, so that a call with a
\* region parameter analyses the records of that region.
C18_ReportedRegionIsFetchedRegion ==
    Answered => Val(reply).result.region = ServingRegion

\* What the code does: the region parameter is reported and not fetched from
ReportedRegionIsParameterOrServing ==
    Answered =>
        Val(reply).result.region
            = OrElse(Val(request).arguments.region, ServingRegion)

\* A call for eu-west-1 answered from the records of us-east-1
RegionReportedNotFetched ==
    /\ Answered
    /\ Val(request).arguments.region = Some("eu-west-1")
    /\ Val(reply).result.region = "eu-west-1"
    /\ ServingRegion = "us-east-1"
    /\ Len(clients) = 1

-----------------------------------------------------------------------------
(* C19 *)

AnalysisPrefixes ==
    {"", "Security group analysis failed: ", "Public instance analysis failed: "}

\* The texts that may follow the handler's prefix in an answer
MessageTails ==
    {outer \o inner \o error.message :
        outer \in AnalysisPrefixes, inner \in AnalysisPrefixes,
        error \in ServerFetchErrors}

StartsWith(text, prefix) == \E tail \in MessageTails : text = prefix \o tail

\* The analysis of the call served was ended by a fetch rejected with this error
FetchFailedWith(error) ==
    \/ /\ pc = "thrown"
       /\ result.error = "Security group analysis failed: " \o error.message
    \/ /\ piPc = "thrown"
       /\ piResult.error = "Public instance analysis failed: " \o error.message

\* What the handler is to answer to a failure of this name
AnsweredByName(error, answer) ==
    IF error.name = "UnauthorizedOperation"
    THEN /\ answer.code = "InvalidRequest"
         /\ StartsWith(answer.message, "AWS Permission Denied: ")
    ELSE IF error.name \in {"NetworkingError", "TimeoutError"}
    THEN /\ answer.code = "InternalError"
         /\ StartsWith(answer.message, "AWS Connection Error: ")
    ELSE /\ answer.code = "InternalError"
         /\ StartsWith(answer.message, "Tool execution failed: ")

\* C19: when a fetch made during a tool call is rejected with an error named
\* UnauthorizedOperation the handler answers with an "AWS Permission Denied"
\* error (InvalidRequest); when it is rejected with an error named
\* NetworkingError or TimeoutError the handler answers with an "AWS Connection
\* Error" error; only other failures are answered with "Tool execution
\* failed".
C19_FetchErrorsAnsweredByName ==
    [][\A error \in ServerFetchErrors :
          (FetchFailedWith(error) /\ toolPc' = "idle") =>
              /\ IsDefined(reply')
              /\ DOMAIN Val(reply') = {"error"}
              /\ AnsweredByName(error, Val(reply').error)]_vars

\* What the code does: the analyzer and the tool rethrow a new Error, whose
\* name is "Error", so every rejected fetch is answered as a tool failure
C19_EveryFetchFailureIsToolFailure ==
    [][\A error \in ServerFetchErrors :
          (FetchFailedWith(error) /\ toolPc' = "idle") =>
              /\ IsDefined(reply')
              /\ DOMAIN Val(reply') = {"error"}
              /\ Val(reply').error.code = "InternalError"
              /\ StartsWith(Val(reply').error.message, "Tool execution failed: ")]_vars

\* A fetch rejected with UnauthorizedOperation, answered as a tool failure
UnauthorizedAnsweredAsToolFailure ==
    /\ toolPc = "idle"
    /\ IsDefined(reply)
    /\ DOMAIN Val(reply) = {"error"}
    /\ Val(reply).error
          = McpError("InternalError",
                     "Tool execution failed: Security group analysis failed: "
                        \o "Security group analysis failed: You are not authorized")

-----------------------------------------------------------------------------
(* C20 *)

\* The region and the access key id a getAWSClient call asks for
AskedRegion(config) ==
    IF IsDefined(config) /\ IsDefined(Val(config).region) THEN Val(Val(config).region)
    ELSE IF IsDefined(env.AWS_REGION) THEN Val(env.AWS_REGION)
    ELSE "us-east-1"

AskedAccessKeyId(config) ==
    IF IsDefined(config) /\ IsDefined(Val(config).accessKeyId)
    THEN Val(Val(config).accessKeyId)
    ELSE IF IsDefined(env.AWS_ACCESS_KEY_ID) THEN Val(env.AWS_ACCESS_KEY_ID)
    ELSE ""

GetCalls == {i \in 1..Len(clientCalls) : ~clientCalls[i].reset}

ResetBetween(i, j) == \E k \in (i + 1)..(j - 1) : clientCalls[k].reset

SameAsk(i, j) ==
    /\ AskedRegion(clientCalls[i].config) = AskedRegion(clientCalls[j].config)
    /\ AskedAccessKeyId(clientCalls[i].config)
          = AskedAccessKeyId(clientCalls[j].config)

\* C20: over every sequence of getAWSClient and resetAWSClient calls, two
\* getAWSClient calls for the same region and access key id with no reset
\* between them return the same instance, two calls that differ in the region
\* or in the access key id return different instances, and a call after a
\* reset returns an instance that no call before the reset returned.
C20_ClientPerRegionAndKeyUntilReset ==
    \A i, j \in GetCalls :
        i < j =>
            /\ (SameAsk(i, j) /\ ~ResetBetween(i, j)) =>
                   clientCalls[i].client = clientCalls[j].client
            /\ ~SameAsk(i, j) => clientCalls[i].client # clientCalls[j].client
            /\ ResetBetween(i, j) => clientCalls[i].client # clientCalls[j].client

\* The same ask twice, a reset, the same ask again, and another access key id
C20_Witness ==
    /\ Len(clientCalls) = 4
    /\ GetCalls = {1, 2, 4}
    /\ SameAsk(1, 2) /\ SameAsk(2, 4)
    /\ clientCalls[1].client = clientCalls[2].client
    /\ clientCalls[4].client # clientCalls[1].client
    /\ IsDefined(clients[clientCalls[1].client].credentials)

-----------------------------------------------------------------------------
(* C21 *)

\* The findings of a list that have this severity
OfSeverity(fs, severity) == SelectSeq(fs, LAMBDA f : f.severity = severity)

\* C21: in every security-group result the three counts of the summary are
\* the numbers of HIGH, MEDIUM and LOW findings of the returned findings list,
\* unused-group findings included; their sum is the length of the list;
\* totalGroups is the number of fetched groups; and riskDistribution repeats
\* the three counts.
C21_SummaryCountsFindings ==
    (Answered /\ Val(request).name = SecurityGroupToolName) =>
        LET summary == Val(reply).result.summary
            fs == Val(reply).result.findings
        IN  /\ summary.highRiskFindings = Len(OfSeverity(fs, "HIGH"))
            /\ summary.mediumRiskFindings = Len(OfSeverity(fs, "MEDIUM"))
            /\ summary.lowRiskFindings = Len(OfSeverity(fs, "LOW"))
            /\ summary.highRiskFindings + summary.mediumRiskFindings
                  + summary.lowRiskFindings = Len(fs)
            /\ summary.totalGroups = Cardinality(GroupsAskedFor)
            /\ summary.riskDistribution
                  = [high |-> summary.highRiskFindings,
                     medium |-> summary.mediumRiskFindings,
                     low |-> summary.lowRiskFindings]

\* The same counts in the value analyze returns, over every catalog and account
SummaryCountsFindingsOfAnalyze ==
    pc = "returned" =>
        /\ result.summary.highRiskFindings = Len(OfSeverity(result.findings, "HIGH"))
        /\ result.summary.mediumRiskFindings = Len(OfSeverity(result.findings, "MEDIUM"))
        /\ result.summary.lowRiskFindings = Len(OfSeverity(result.findings, "LOW"))
        /\ result.summary.highRiskFindings + result.summary.mediumRiskFindings
              + result.summary.lowRiskFindings = Len(result.findings)
        /\ result.summary.totalGroups = Len(securityGroups)

\* A result of two groups with a MEDIUM finding and a LOW unused-group finding
C21_Witness ==
    /\ Answered
    /\ Val(request).name = SecurityGroupToolName
    /\ Val(reply).result.summary.mediumRiskFindings = 1
    /\ Val(reply).result.summary.lowRiskFindings = 1
    /\ \E n \in 1..Len(Val(reply).result.findings) :
          IsUnusedFinding(Val(reply).result.findings[n])

-----------------------------------------------------------------------------
(* C22 *)

\* The instances of the DescribeInstances answer that are stopped or have no
\* public IP address
NotPublicRunning ==
    SelectSeq(ServedInstances, LAMBDA instance :
        \/ ~IsDefined(instance.PublicIpAddress)
        \/ instance.State # Some([Name |-> Some("running")]))

\* C22: the public-instance analysis reports an instance iff it has a public
\* IP address and its state is running: the instances list is these instances
\* in the order of the answer; a stopped instance or one without a public IP
\* is not in the list but is counted in summary.totalInstances;
\* summary.publicInstances is the length of the list and
\* summary.totalExposedPorts is the sum of the lengths of their exposedPorts.
C22_PublicRunningInstancesReported ==
    piPc = "returned" =>
        LET reported == piResult.instances
        IN  /\ Len(reported) = Len(PublicRunningInstances)
            /\ \A n \in 1..Len(reported) :
                  /\ reported[n].publicIp
                        = Val(PublicRunningInstances[n].PublicIpAddress)
                  /\ reported[n].instanceId
                        = OrElse(PublicRunningInstances[n].InstanceId, "unknown")
            /\ \A k \in 1..Len(NotPublicRunning) :
                  \A n \in 1..Len(reported) :
                      Some(reported[n].instanceId) # NotPublicRunning[k].InstanceId
            /\ piResult.summary.totalInstances
                  = Len(PublicRunningInstances) + Len(NotPublicRunning)
            /\ piResult.summary.publicInstances = Len(reported)
            /\ piResult.summary.totalExposedPorts
                  = Cardinality(UNION {{<<n, k>> : k \in 1..Len(reported[n].exposedPorts)} :
                                          n \in 1..Len(reported)})

\* A stopped instance and a running one that exposes ports: two instances
\* counted, one reported
C22_Witness ==
    /\ piPc = "returned"
    /\ Len(NotPublicRunning) = 1
    /\ NotPublicRunning[1].State = Stopped
    /\ piResult.summary.totalInstances = 2
    /\ piResult.summary.publicInstances = 1
    /\ piResult.summary.totalExposedPorts > 0

\* An instance without a public IP address, and nothing reported
C22_WitnessNoPublicIp ==
    /\ piPc = "returned"
    /\ Len(NotPublicRunning) = 1
    /\ NotPublicRunning[1].PublicIpAddress = Undefined
    /\ piResult.summary.totalInstances = 1
    /\ piResult.instances = <<>>

-----------------------------------------------------------------------------
(* C23 *)

\* The three rules that the checks look up by name
NamedRules == {"sg-wide-port-range", "sg-all-traffic", "sg-unused"}

\* Those of them that the analyzer's catalog lacks
MissingRules == {id \in NamedRules : ~HasRule(id)}

\* What analyze returns on the fetched groups and instances with this catalog
FindingsWith(ruleList) ==
    Flatten([g \in 1..Len(securityGroups) |->
                analyzeSecurityGroup(ruleList, securityGroups[g])])
    \o findUnusedSecurityGroups(ruleList, reservations, securityGroups)

\* C23: when the catalog lacks the wide-port-range rule, the all-traffic rule
\* or the unused-group rule, the analysis raises no error of its own and
\* returns no finding of that category, and the findings of every other
\* category are exactly those returned with the full catalog, in their order.
C23_MissingRuleSkipsItsCategory ==
    (IsDefined(rules) /\ MissingRules # {}) =>
        /\ pc = "thrown" => result.error \in FetchFailureMessages
        /\ pc = "returned" =>
              /\ \A n \in 1..Len(result.findings) :
                    result.findings[n].ruleId \notin MissingRules
              /\ \A id \in NamedRules :
                    Val(rules) = Without(FullCatalog, id) =>
                        result.findings
                            = SelectSeq(FindingsWith(FullCatalog),
                                        LAMBDA f : f.ruleId # id)

\* Without the all-traffic rule: findings are returned, fewer than with the
\* full catalog
C23_Witness ==
    /\ pc = "returned"
    /\ rules = Some(Without(FullCatalog, "sg-all-traffic"))
    /\ Len(FindingsWith(FullCatalog)) > Len(result.findings)
    /\ result.findings # <<>>

\* Without the unused-group rule, an unattached group and no finding
C23_WitnessUnused ==
    /\ pc = "returned"
    /\ rules = Some(Without(FullCatalog, "sg-unused"))
    /\ UnattachedGroups # {}
    /\ result.findings = <<>>

-----------------------------------------------------------------------------
(* C24 *)

\* The findings of the permissions of fetched group g, permission by permission
FindingsOfGroup(g) ==
    Flatten([k \in 1..Len(OrElse(securityGroups[g].IpPermissions, <<>>)) |->
                DangerousAt(<<g, k>>) \o WideAt(<<g, k>>) \o AllTrafficAt(<<g, k>>)])

\* The findings of all permissions, group by group
PermissionFindingsInOrder ==
    Flatten([g \in 1..Len(securityGroups) |-> FindingsOfGroup(g)])

\* The fetched groups that are unused, in fetched order
UnattachedInOrder ==
    SelectSeq(securityGroups, LAMBDA sg :
        /\ IsDefined(sg.GroupId)
        /\ Val(sg.GroupId) \notin AttachedGroupIds
        /\ sg.GroupName # Some("default"))

\* The place in the catalog of the first rule of that id
RuleIndex(id) ==
    CHOOSE i \in 1..Len(Val(rules)) :
        /\ Val(rules)[i].id = id
        /\ \A j \in 1..(i - 1) : Val(rules)[j].id # id

C24_WitnessTwoUnused ==
    /\ pc = "returned"
    /\ Len(result.findings) = 2
    /\ IsUnusedFinding(result.findings[1])
    /\ IsUnusedFinding(result.findings[2])
    /\ result.findings[1].securityGroupId = "sg-2"
    /\ result.findings[2].securityGroupId = "sg-1"

-----------------------------------------------------------------------------
(* C25 *)

\* What the security-group analysis returns for these group ids when it runs
\* alone on the records of the account
AloneSecurityGroupResult(ids) ==
    LET fetched == OrElse(DescribeSecurityGroups(ids), <<>>)
        fs == Flatten([g \in 1..Len(fetched) |->
                          analyzeSecurityGroup(Val(rules), fetched[g])])
              \o findUnusedSecurityGroups(Val(rules), reservations, fetched)
    IN  [summary |-> generateSummary(fs, Len(fetched)), findings |-> fs]

\* What the public-instance analysis returns when it runs alone
AlonePublicInstanceResult ==
    LET infos == [n \in 1..Len(PublicRunningInstances) |->
                    LET instance == PublicRunningInstances[n]
                        ids == securityGroupIdsOf(instance)
                    IN  publicInstanceInfo(instance,
                            IF ids = <<>> THEN <<>>
                            ELSE getExposedPorts(DescribeSecurityGroups(Some(ids))))]
    IN  publicInstanceResult(ServedInstances, infos)

\* C25: when two analyses are in flight at once and their steps interleave at
\* the fetch suspension points, each one that returns returns exactly what it
\* returns when it runs alone on the same fetched records, whatever the other
\* one is, has fetched, or has ended with.
C25_InterleavedCallsReturnTheirOwnResult ==
    \A c \in Calls :
        inFlight[c].pc = "returned" =>
            inFlight[c].result
                = IF inFlight[c].kind = "security-group"
                  THEN AloneSecurityGroupResult(inFlight[c].groupIds)
                  ELSE AlonePublicInstanceResult

\* Two security-group analyses in flight, of every group and of sg-1 alone,
\* have returned, and their findings differ
C25_Witness ==
    /\ inFlight[1].kind = "security-group" /\ inFlight[2].kind = "security-group"
    /\ inFlight[1].pc = "returned" /\ inFlight[2].pc = "returned"
    /\ inFlight[1].groupIds = Undefined
    /\ inFlight[2].groupIds = Some(<<"sg-1">>)
    /\ Len(inFlight[1].result.findings) > Len(inFlight[2].result.findings)
    /\ inFlight[2].result.findings # <<>>

\* A public-instance analysis returned while a security-group analysis that
\* has pushed findings is suspended
C25_WitnessSuspended ==
    /\ inFlight[1].kind = "public-instance" /\ inFlight[1].pc = "returned"
    /\ inFlight[1].result.instances # <<>>
    /\ inFlight[2].kind = "security-group" /\ inFlight[2].pc = "awaitInstances"
    /\ inFlight[2].findings # <<>>

-----------------------------------------------------------------------------
(* C26 *)

\* The decimal texts of a list of ports, separated by ", "
RECURSIVE PortList(_)
PortList(ports) ==
    IF Len(ports) = 1 THEN Decimal(ports[1])
    ELSE PortList(SubSeq(ports, 1, Len(ports) - 1)) \o ", " \o Decimal(ports[Len(ports)])

\* C26: the recommendations of a reported instance depend on its exposedPorts
\* only and are, in this order: an entry that lists exactly the exposed
\* dangerous ports, present iff a dangerous port is exposed; the
\* reduce-exposure entry, present iff more than 5 ports are exposed; the
\* load-balancer entry and the private-subnet/VPN entry, present iff a port
\* is exposed.  An instance with no exposed port has no recommendation.
C26_InstanceRecommendations ==
    /\ \A n \in 1..Len(publicInstances) :
          LET ports == publicInstances[n].exposedPorts
              dangerous == SelectSeq(ports, LAMBDA port : port \in DangerousPortSet)
          IN  /\ publicInstances[n].recommendations
                    = When(dangerous # <<>>,
                           <<"Restrict access to dangerous ports: " \o PortList(dangerous)>>)
                      \o When(Len(ports) > 5,
                              <<"Consider reducing the number of exposed ports">>)
                      \o When(Len(ports) > 0,
                              <<"Use Application Load Balancer or NAT Gateway for controlled access",
                                "Consider moving to private subnet with VPN access">>)
              /\ ports = <<>> => publicInstances[n].recommendations = <<>>
    /\ \A n, m \in 1..Len(publicInstances) :
          publicInstances[n].exposedPorts = publicInstances[m].exposedPorts =>
              publicInstances[n].recommendations = publicInstances[m].recommendations

\* Six ports, two of them dangerous: the four entries
C26_Witness ==
    /\ piPc = "returned"
    /\ Len(piResult.instances) = 2
    /\ piResult.instances[2].exposedPorts = <<22, 3306, 8080, 8081, 8082, 8083>>
    /\ piResult.instances[2].recommendations
          = <<"Restrict access to dangerous ports: 22, 3306",
              "Consider reducing the number of exposed ports",
              "Use Application Load Balancer or NAT Gateway for controlled access",
              "Consider moving to private subnet with VPN access">>

\* An instance that exposes no port
C26_WitnessNoPort ==
    /\ piPc = "returned"
    /\ Len(piResult.instances) = 2
    /\ piResult.instances[1].exposedPorts = <<>>
    /\ piResult.instances[1].recommendations = <<>>

-----------------------------------------------------------------------------
(* C27 *)

\* C27: in every public-instance tool result the three counts of
\* riskAssessment sum to the number of reported instances; the dangerous-port
\* list and the critical-port map hold the same ports, so that an instance
\* has riskLevel HIGH iff its criticalPorts list is non-empty; and highRisk >
\* 0 implies criticalServiceExposures > 0.
C27_RiskAssessmentCounts ==
    /\ {CRITICAL_PORT_MAP[i][1] : i \in 1..Len(CRITICAL_PORT_MAP)} = Range(DANGEROUS_PORTS)
    /\ (Answered /\ Val(request).name = PublicInstanceToolName) =>
          LET instances == Val(reply).result.instances
              assessment == Val(reply).result.riskAssessment
          IN  /\ assessment.highRisk + assessment.mediumRisk + assessment.lowRisk
                    = Len(instances)
              /\ \A n \in 1..Len(instances) :
                    /\ instances[n].riskLevel = "HIGH"
                          <=> instances[n].criticalPorts # <<>>
                    /\ \A k \in 1..Len(instances[n].criticalPorts) :
                          instances[n].criticalPorts[k].port
                              \in Range(instances[n].exposedPorts)
              /\ assessment.highRisk
                    = Cardinality({n \in 1..Len(instances) :
                                      instances[n].riskLevel = "HIGH"})
              /\ assessment.highRisk > 0 => assessment.criticalServiceExposures > 0

\* A result with a HIGH-risk instance that exposes SSH
C27_Witness ==
    /\ Answered
    /\ Val(request).name = PublicInstanceToolName
    /\ Val(reply).result.riskAssessment.highRisk = 1
    /\ Val(reply).result.riskAssessment.criticalServiceExposures = 1
    /\ Val(reply).result.instances[1].criticalPorts = <<[port |-> 22, service |-> "SSH"]>>

\* A result with a MEDIUM-risk instance and no critical port
C27_WitnessMedium ==
    /\ Answered
    /\ Val(request).name = PublicInstanceToolName
    /\ Val(reply).result.riskAssessment.mediumRisk = 1
    /\ Val(reply).result.instances[1].criticalPorts = <<>>

-----------------------------------------------------------------------------
(* C28 *)

\* The permissions of the groups attached to an instance that are open to
\* 0.0.0.0/0 or ::/0
PublicPermissionsOf(instance) ==
    LET attachedIds ==
            {Val(a.GroupId) : a \in {b \in Range(OrElse(instance.SecurityGroups, <<>>)) :
                                        IsDefined(b.GroupId)}}
    IN  {q \in UNION {Range(OrElse(sg.IpPermissions, <<>>)) :
                         sg \in {g \in Range(OrElse(cloudGroups, <<>>)) :
                                    IsDefined(g.GroupId) /\ Val(g.GroupId) \in attachedIds}} :
            HasPublicRange(q)}

\* C28: a publicly exposed permission without fromPort or without toPort adds
\* no port to exposedPorts: a reported instance whose attached groups hold
\* public permissions, all of them without one of the ports, has exposedPorts
\* = [], riskLevel LOW and no recommendations, although the security-group
\* analysis of the same account returns the all-traffic finding for each
\* such permission of protocol "-1".
C28_PortlessPermissionExposesNoPort ==
    \A c \in Calls :
        inFlight[c].pc = "returned" =>
            IF inFlight[c].kind = "public-instance"
            THEN \A n \in 1..Len(inFlight[c].result.instances) :
                    LET public == PublicPermissionsOf(PublicRunningInstances[n])
                        info == inFlight[c].result.instances[n]
                    IN  (public # {} /\ \A q \in public : ~HasPorts(q)) =>
                            /\ info.exposedPorts = <<>>
                            /\ info.riskLevel = "LOW"
                            /\ info.recommendations = <<>>
            ELSE \A g \in 1..Len(inFlight[c].securityGroups) :
                    LET sg == inFlight[c].securityGroups[g]
                    IN  \A q \in Range(OrElse(sg.IpPermissions, <<>>)) :
                            (HasPublicRange(q) /\ ~HasPorts(q)
                             /\ q.IpProtocol = Some("-1")) =>
                                \E k \in 1..Len(inFlight[c].result.findings) :
                                    /\ inFlight[c].result.findings[k].ruleId
                                          = "sg-all-traffic"
                                    /\ Some(inFlight[c].result.findings[k].securityGroupId)
                                          = sg.GroupId

\* Both analyses of an account whose group sg-1 opens all protocols to the
\* world: the all-traffic finding for sg-1, and the instance attached to sg-1
\* reported with no port at LOW
C28_Witness ==
    /\ inFlight[1].kind = "security-group" /\ inFlight[1].pc = "returned"
    /\ inFlight[2].kind = "public-instance" /\ inFlight[2].pc = "returned"
    /\ \E k \in 1..Len(inFlight[1].result.findings) :
          /\ inFlight[1].result.findings[k].ruleId = "sg-all-traffic"
          /\ inFlight[1].result.findings[k].securityGroupId = "sg-1"
    /\ Len(inFlight[2].result.instances) = 1
    /\ inFlight[2].result.instances[1].securityGroups = <<"sg-1">>
    /\ inFlight[2].result.instances[1].exposedPorts = <<>>
    /\ inFlight[2].result.instances[1].riskLevel = "LOW"
    /\ inFlight[2].result.instances[1].recommendations = <<>>

-----------------------------------------------------------------------------
(* C29 *)

\* A step of the loader or of the file system: a load, a cache reset, a
\* rewritten catalog file
LoaderStep ==
    \/ \E customPath \in PathArguments : LoadSecurityRules(customPath)
    \/ ClearRulesCache
    \/ \E rulePath \in {DEFAULT_RULES_PATH, CustomRulesPath}, file \in RewrittenFiles :
          WriteCatalog(rulePath, file)

\* C29: the rule list of a SecurityGroupAnalyzer is fixed when the analyzer
\* is constructed, with the rules option or, as for the tool instance built at
\* import, with what loadSecurityRules() returns then; no later cache reset,
\* catalog load or rewritten catalog file changes it, and every later analysis
\* evaluates against it, not against the reloaded rules.
C29_RulesFixedAtConstruction ==
    /\ [][NewAnalyzer =>
             \/ /\ IsDefined(loaded) /\ rules' = Val(loaded).returned
                /\ cachedRules' = cachedRules
             \/ /\ IsDefined(loaded') /\ Val(loaded').customPath = Undefined
                /\ rules' = Val(loaded').returned]_vars
    /\ [][pc # "noAnalyzer" => rules' = rules]_vars
    /\ [][(LoaderStep /\ pc # "noAnalyzer") => rules' = rules]_vars
    /\ [][(pc' = "returned" /\ IsDefined(rules)) =>
             result'.findings
                = Flatten([g \in 1..Len(securityGroups') |->
                              analyzeSecurityGroup(Val(rules), securityGroups'[g])])
                  \o findUnusedSecurityGroups(Val(rules), reservations, securityGroups')]_vars

\* An analyzer constructed on the shipped catalog has returned the finding of
\* that catalog for port 22 after the catalog file was rewritten and reloaded:
\* the cache holds the edited catalog
C29_Witness ==
    /\ pc = "returned"
    /\ rules = Some(FullCatalog)
    /\ cachedRules = Some(EditedCatalog)
    /\ defaultFile = CatalogFile(TRUE, TRUE, ParsedCatalog(EditedCatalog))
    /\ Len(result.findings) = 2
    /\ result.findings[1].ruleId = "sg-ssh-world"
    /\ result.findings[2].severity = "LOW"

-----------------------------------------------------------------------------
(* C30 *)

\* The call that created the client of the region and access key id call j
\* asks for: the first such call since the last reset before j
CreatorOf(j) ==
    CHOOSE i \in GetCalls :
        /\ i <= j /\ SameAsk(i, j) /\ ~ResetBetween(i, j)
        /\ \A k \in GetCalls :
               (k <= j /\ SameAsk(k, j) /\ ~ResetBetween(k, j)) => i <= k

\* C30: the secret access key is no part of the cache key.  A getAWSClient
\* call that follows, with no resetAWSClient between, a call for the same
\* region and access key id returns the client the first such call since the
\* last reset created, and that client holds the region and the credentials
\* the constructor derived from the first call's config, whatever secret
\* access key the later call carries.
C30_SecretIsNoPartOfTheKey ==
    \A i, j \in GetCalls :
        (/\ i < j /\ SameAsk(i, j) /\ ~ResetBetween(i, j)
         /\ ConfigSecretAccessKey(clientCalls[i].config)
               # ConfigSecretAccessKey(clientCalls[j].config)) =>
            LET first == CreatorOf(j)
            IN  /\ clientCalls[j].client = clientCalls[first].client
                /\ clientCalls[j].client = clientCalls[i].client
                /\ clients[clientCalls[j].client]
                      = AWSClientService(clientCalls[first].config, env)

\* key1 with secret1, then key1 with secret2 answered by the client that holds
\* secret1, then a reset, then key1 with secret2 answered by a new client that
\* holds secret2
C30_Witness ==
    /\ Len(clientCalls) = 4
    /\ GetCalls = {1, 2, 4}
    /\ clientCalls[1].config
          = AWSClientConfig(Some("us-east-1"), Some("key1"), Some("secret1"))
    /\ clientCalls[2].config
          = AWSClientConfig(Some("us-east-1"), Some("key1"), Some("secret2"))
    /\ clientCalls[4].config = clientCalls[2].config
    /\ clientCalls[2].client = clientCalls[1].client
    /\ Val(clients[clientCalls[2].client].credentials).secretAccessKey = "secret1"
    /\ clientCalls[4].client # clientCalls[1].client
    /\ Val(clients[clientCalls[4].client].credentials).secretAccessKey = "secret2"

====
